---- MODULE Spec2Model ----
(***************************************************************************)
(* CadViser: the Part Registry (class PartManager, part-manager.js) and    *)
(* the section-mode state machine, together with the application glue of   *)
(* the main script that calls into it (ghost mode, the selectPart          *)
(* override, the per-frame animate loop).                                  *)
(*                                                                         *)
(* The registry state is held in one variable per field of PartManager and *)
(* of the per-part records.  Every method is an operator from a state      *)
(* record to a state record, composed exactly as the methods call each     *)
(* other; every action applies one public method (or one event handler) to *)
(* the whole current state.                                                *)
(***************************************************************************)
EXTENDS Integers, Sequences, FiniteSets, TLC

\* ------------------------------------------------------------------ bounds
\* number of parts registered by addPart at load time
NumParts == 2
\* longest clippingPlanes array a material may carry (createSectionPlane is
\* not taken beyond it)
MaxClip == 2
\* most blocks (an o or g line and the lines after it) in a file
MaxObjects == 2
\* lines of a file that is read line by line
MaxLines == 5
\* meshes of a loaded object
MaxMeshes == 2
\* most analyzeOBJ calls on one analyzer
MaxCalls == 2
\* most pieces in a part name
\* the most touchstart events followed
MaxTaps == 4
\* the most timers of selectPart that are pending at a time
MaxTimers == 2
MaxWords == 2

\* ------------------------------------------------------------- identifiers
PartNumbers == <<"P-001", "P-002", "P-003", "P-004", "P-005">>
\* keys of this.parts / this.partMeshes / this.partLabels after loading
PartIds == {PartNumbers[k] : k \in 1..NumParts}
\* an id no part was registered under
UnknownId == "P-999"
Ids == PartIds \cup {UnknownId}
\* JavaScript null (selectedPart, sectionedPartId)
Null == "null"
\* result of Map.get on a missing key
Undefined == "undefined"

PlaneTypes == {"XY", "XZ", "YZ"}
\* the default arguments of createSectionPlane(partId, planeType = 'XY', position = 0)
DefaultPlaneType == "XY"
DefaultPosition == 0
\* values of the sectionPosition slider used by the model, in hundredths
\* (the slider runs from -1.00 to 1.00)
Positions == {-100, DefaultPosition, 50}
\* the two ends of the slider
SliderEnds == {-100, 100}

\* material objects: the shared hdpeMaterial every mesh starts with, the
\* per-part clone kept in originalMaterials, the two highlight materials of
\* the manager and the shared ghost material
hdpeMaterial == "hdpeMaterial"
highlightMaterial == "highlightMaterial"
highlight2Material == "highlight2Material"
ghostMaterial == "ghostMaterial"
originalMaterials(id) == "originalMaterial:" \o id
Materials ==
    {hdpeMaterial, highlightMaterial, highlight2Material, ghostMaterial}
        \cup {originalMaterials(id) : id \in PartIds}

VARIABLES
    isSelected,          \* part.isSelected
    isHighlighted,       \* part.isHighlighted
    isHidden,            \* part.isHidden
    meshVisible,         \* mesh.visible
    labelVisible,        \* label.visible
    material,            \* mesh.material (a reference to a material object)
    glow,                \* the mesh has a glow child
    clippingPlanes,      \* material.clippingPlanes, each plane named by the part it was made for
    selectedPart,
    visibleParts,
    highlightedParts,
    sectionPlanes,       \* partId -> the section plane object
    crossSections,       \* partIds with a cross-section mesh in the scene
    cuttingPlaneVisuals, \* partIds with a cutting-plane visual in the scene
    sectionedPartId,
    preIsolationState,
    isGhostMode,
    infoOverlay,         \* partInfoOverlay carries the class 'visible'
    partsList,           \* partIds with an item in the #partsList element
    cursor,              \* renderer.domElement.style.cursor
    \* history variables (not program state)
    lastOp,              \* name of the call that produced this state
    sectionSince,        \* part whose createSectionPlane succeeded with no removeSectionPlane of it
                         \* and no createSectionPlane of another part since
    isolation            \* how far the last isolatePart is from its showAllParts

\* the PartAnalyzer object and the analyzeOBJ call in progress
VARIABLES
    parts,               \* this.parts: the parts accepted so far
    currentPart,         \* this.currentPart
    objContent,          \* the argument of analyzeOBJ, as its list of lines
    lineNumber,          \* lines of objContent taken by the loop so far
    pc,                  \* "idle": no call yet, "scan": inside the loop, "done": returned
    result,              \* the array the last analyzeOBJ call returned
    \* history variables (not program state)
    calls,               \* analyzeOBJ calls made on this analyzer
    openedCount,         \* parts opened by o/g lines during the current call
    \* a direct call of detectPartType
    typeName,            \* its argument
    typeResult           \* its result

\* the session of the main script: loading the model and the part videos
VARIABLES
    loadPc,              \* where loading stands: fetching, analyzing, loading, loaded, failed
    fetchResponse,       \* how fetch('PipeAssembly.obj') settled
    status,              \* the text of the #status element
    partsRegistered,     \* addPart has been called for the meshes of the model
    addPartCalls,        \* history: the partNumber of every addPart call, in order
    animating,           \* animate() has been called
    scanPc,              \* scanResourcesFolder: idle, awaiting (a probe), done
    scanIndex,           \* index in partNames of the probe awaited
    probeFate,           \* how the server answers the HEAD request for each name
    videoSequences,      \* keys of this.videoSequences
    videoTimers,         \* partIds of the pending setTimeout callbacks of selectPart
    playButtonDisabled,  \* playButton.disabled
    currentVideo         \* this.currentVideo.partId, or null

sessionVars ==
    <<loadPc, fetchResponse, status, partsRegistered, addPartCalls, animating, scanPc,
      scanIndex, probeFate, videoSequences, videoTimers, playButtonDisabled, currentVideo>>

\* the settings of the main script, the touch gestures and the camera
VARIABLES
    settings,            \* hdpeMaterial.color and .roughness, directionalLight.intensity and
                         \* .shadow.mapSize, upAxis, applyScope, activeCamera
    localStorage,        \* the items of window.localStorage
    cameraFit,           \* the camera is where fitCameraToObject(modelGroup) put it
    now,                 \* Date.now()
    lastTouchTime,       \* lastTouchTime
    touchCount,          \* touchCount
    tapCount,            \* history: touchstart events so far
    lastTapAt,           \* history: Date.now() of the last single-finger touchstart
    runLength,           \* history: single-finger touchstarts each less than 300 ms after the one before
    runResets            \* history: calls of fitCameraToObject made by these

settingsVars == <<settings, localStorage>>

touchVars == <<now, lastTouchTime, touchCount, tapCount, lastTapAt, runLength, runResets>>

appVars == <<sessionVars, settingsVars, cameraFit, touchVars>>

analyzerVars ==
    <<parts, currentPart, objContent, lineNumber, pc, result, calls, openedCount,
      typeName, typeResult>>

progVars ==
    <<isSelected, isHighlighted, isHidden, meshVisible, labelVisible, material, glow,
      clippingPlanes, selectedPart, visibleParts, highlightedParts, sectionPlanes,
      crossSections, cuttingPlaneVisuals, sectionedPartId, preIsolationState,
      isGhostMode, infoOverlay, partsList, cursor>>

vars ==
    <<isSelected, isHighlighted, isHidden, meshVisible, labelVisible, material, glow,
      clippingPlanes, selectedPart, visibleParts, highlightedParts, sectionPlanes,
      crossSections, cuttingPlaneVisuals, sectionedPartId, preIsolationState,
      isGhostMode, infoOverlay, partsList, cursor, lastOp, sectionSince, isolation,
      appVars,
      parts, currentPart, objContent, lineNumber, pc, result, calls, openedCount,
      typeName, typeResult>>

\* the current program state as one record
State ==
    [isSelected |-> isSelected, isHighlighted |-> isHighlighted, isHidden |-> isHidden,
     meshVisible |-> meshVisible, labelVisible |-> labelVisible, material |-> material,
     glow |-> glow, clippingPlanes |-> clippingPlanes, selectedPart |-> selectedPart,
     visibleParts |-> visibleParts, highlightedParts |-> highlightedParts,
     sectionPlanes |-> sectionPlanes, crossSections |-> crossSections,
     cuttingPlaneVisuals |-> cuttingPlaneVisuals, sectionedPartId |-> sectionedPartId,
     preIsolationState |-> preIsolationState, isGhostMode |-> isGhostMode,
     infoOverlay |-> infoOverlay, partsList |-> partsList, cursor |-> cursor]

\* the next state of the registry is s; a registry call does not touch the
\* analyzer
CommitState(s) ==
    /\ UNCHANGED analyzerVars
    /\ isSelected' = s.isSelected
    /\ isHighlighted' = s.isHighlighted
    /\ isHidden' = s.isHidden
    /\ meshVisible' = s.meshVisible
    /\ labelVisible' = s.labelVisible
    /\ material' = s.material
    /\ glow' = s.glow
    /\ clippingPlanes' = s.clippingPlanes
    /\ selectedPart' = s.selectedPart
    /\ visibleParts' = s.visibleParts
    /\ highlightedParts' = s.highlightedParts
    /\ sectionPlanes' = s.sectionPlanes
    /\ crossSections' = s.crossSections
    /\ cuttingPlaneVisuals' = s.cuttingPlaneVisuals
    /\ sectionedPartId' = s.sectionedPartId
    /\ preIsolationState' = s.preIsolationState
    /\ isGhostMode' = s.isGhostMode
    /\ infoOverlay' = s.infoOverlay
    /\ partsList' = s.partsList
    /\ cursor' = s.cursor

\* a registry call outside the session of the main script
Commit(s) == CommitState(s) /\ UNCHANGED appVars

\* this.parts.get(id) && this.partMeshes.get(id): both maps have the same keys
HasPart(id) == id \in PartIds

\* ------------------------------------------------- constructor and addPart
\* the state after the constructor and after addPart for every mesh of the
\* loaded model: all parts shown, nothing selected, no section
InitState ==
    [isSelected |-> [id \in PartIds |-> FALSE],
     isHighlighted |-> [id \in PartIds |-> FALSE],
     isHidden |-> [id \in PartIds |-> FALSE],
     meshVisible |-> [id \in PartIds |-> TRUE],
     labelVisible |-> [id \in PartIds |-> TRUE],
     material |-> [id \in PartIds |-> hdpeMaterial],
     glow |-> [id \in PartIds |-> FALSE],
     clippingPlanes |-> [m \in Materials |-> <<>>],
     selectedPart |-> Null,
     visibleParts |-> PartIds,
     highlightedParts |-> {},
     sectionPlanes |-> <<>>,
     crossSections |-> {},
     cuttingPlaneVisuals |-> {},
     sectionedPartId |-> Null,
     preIsolationState |-> [defined |-> FALSE, wasHidden |-> [id \in PartIds |-> FALSE]],
     isGhostMode |-> FALSE,
     infoOverlay |-> FALSE,
     partsList |-> {},
     cursor |-> ""]

\* ---------------------------------------------------------- section mode
isInSectioningMode(s) == s.sectionedPartId # Null

\* a maintainSectioningIsolation that hides the other meshes and does not
\* make the sectioned mesh visible again
maintainSectioningIsolation_hideOnly(s) ==
    IF isInSectioningMode(s)
    THEN [s EXCEPT !.meshVisible =
             [id \in PartIds |-> IF id = s.sectionedPartId THEN @[id] ELSE FALSE]]
    ELSE s

maintainSectioningIsolation(s) ==
    IF isInSectioningMode(s)
    THEN [s EXCEPT !.meshVisible = [id \in PartIds |-> id = s.sectionedPartId]]
    ELSE s

forceSectioningMode(s, partId) ==
    maintainSectioningIsolation([s EXCEPT !.sectionedPartId = partId])

update(s) ==
    LET s1 == maintainSectioningIsolation(s)
    IN IF s1.sectionedPartId # Null /\ ~isInSectioningMode(s1)
       THEN forceSectioningMode(s1, s1.sectionedPartId)
       ELSE s1

\* ------------------------------------------------------------- highlight
highlightPart(s, partId) ==
    IF HasPart(partId) /\ ~s.isHighlighted[partId]
    THEN [s EXCEPT !.isHighlighted[partId] = TRUE,
                   !.highlightedParts = @ \cup {partId},
                   !.material[partId] = highlightMaterial,
                   !.glow[partId] = TRUE]
    ELSE s

removeHighlight(s, partId) ==
    IF HasPart(partId) /\ s.isHighlighted[partId]
    THEN [s EXCEPT !.isHighlighted[partId] = FALSE,
                   !.highlightedParts = @ \ {partId},
                   !.material[partId] = originalMaterials(partId),
                   !.glow[partId] = FALSE]
    ELSE s

switchToOrangeHighlight(s, partId) ==
    IF HasPart(partId) /\ s.isHighlighted[partId]
    THEN [s EXCEPT !.material[partId] = highlight2Material]
    ELSE s

switchToGreenHighlight(s, partId) ==
    IF HasPart(partId) /\ s.isHighlighted[partId]
    THEN [s EXCEPT !.material[partId] = highlightMaterial]
    ELSE s

\* -------------------------------------------------------------------- UI
\* updatePartsList empties the list and appends one item per registered
\* part; each item carries a click listener that calls selectPart(partId)
updatePartsList(s) == [s EXCEPT !.partsList = PartIds]

\* updateUI: the counters are text only; the parts list is rebuilt
updateUI(s) == updatePartsList(s)

\* ------------------------------------------------------------- selection
showPartInfo(s) == [s EXCEPT !.infoOverlay = TRUE]

hidePartInfo(s) == [s EXCEPT !.infoOverlay = FALSE]

\* a deselectPart that clears isSelected and leaves the highlight in place
deselectPart_keepHighlight(s, partId) ==
    LET s1 == IF HasPart(partId)
              THEN hidePartInfo([s EXCEPT !.isSelected[partId] = FALSE])
              ELSE s
    IN maintainSectioningIsolation(s1)

deselectPart(s, partId) ==
    LET s1 == IF HasPart(partId)
              THEN hidePartInfo(removeHighlight([s EXCEPT !.isSelected[partId] = FALSE], partId))
              ELSE s
    IN maintainSectioningIsolation(s1)

\* a selectPart that leaves the part selected before as it is
originalSelectPart_keepPrevious(s, partId) ==
    LET s2 == [s EXCEPT !.selectedPart = partId]
        s3 == IF HasPart(partId)
              THEN updateUI(showPartInfo(highlightPart([s2 EXCEPT !.isSelected[partId] = TRUE], partId)))
              ELSE s2
    IN maintainSectioningIsolation(s3)

\* PartManager.prototype.selectPart, kept by the main script as originalSelectPart
originalSelectPart(s, partId) ==
    LET s1 == IF s.selectedPart # Null /\ s.selectedPart # partId
              THEN deselectPart(s, s.selectedPart)
              ELSE s
        s2 == [s1 EXCEPT !.selectedPart = partId]
        s3 == IF HasPart(partId)
              THEN updateUI(showPartInfo(highlightPart([s2 EXCEPT !.isSelected[partId] = TRUE], partId)))
              ELSE s2
    IN maintainSectioningIsolation(s3)

deselectAllParts(s) ==
    LET s1 == IF s.selectedPart # Null
              THEN updateUI([deselectPart(s, s.selectedPart) EXCEPT !.selectedPart = Null])
              ELSE s
    IN maintainSectioningIsolation(s1)

getSelectedPart(s) ==
    IF s.selectedPart # Null
    THEN (IF HasPart(s.selectedPart) THEN s.selectedPart ELSE Undefined)
    ELSE Null

\* ------------------------------------------------------------ ghost mode
toggleGhostMode(s) ==
    LET ghost == ~s.isGhostMode
        sel == getSelectedPart(s)
    IN [s EXCEPT !.isGhostMode = ghost,
                 !.material = [id \in PartIds |->
                     IF ghost /\ id # sel THEN ghostMaterial ELSE hdpeMaterial]]

updateGhostMode(s) ==
    IF s.isGhostMode
    THEN LET sel == getSelectedPart(s)
         IN [s EXCEPT !.material = [id \in PartIds |->
                 IF id = sel \/ sel \in {Null, Undefined} THEN hdpeMaterial ELSE ghostMaterial]]
    ELSE s

\* partManager.selectPart as replaced by the main script
selectPart(s, partId) == updateGhostMode(originalSelectPart(s, partId))

\* ------------------------------------------------------------ visibility
hidePart(s, partId) ==
    IF HasPart(partId)
    THEN [s EXCEPT !.isHidden[partId] = TRUE,
                   !.meshVisible[partId] = FALSE,
                   !.visibleParts = @ \ {partId},
                   !.labelVisible[partId] = FALSE]
    ELSE s

showPart(s, partId) ==
    IF HasPart(partId)
    THEN [s EXCEPT !.isHidden[partId] = FALSE,
                   !.meshVisible[partId] = TRUE,
                   !.visibleParts = @ \cup {partId},
                   !.labelVisible[partId] = TRUE]
    ELSE s

togglePartVisibility(s, partId) ==
    IF HasPart(partId)
    THEN (IF s.isHidden[partId] THEN showPart(s, partId) ELSE hidePart(s, partId))
    ELSE s

\* a loop that hides the other parts and leaves the isolated part's flags alone
RECURSIVE isolateLoop_hideOthersOnly(_, _, _)
isolateLoop_hideOthersOnly(s, k, partId) ==
    IF k > NumParts
    THEN s
    ELSE LET id == PartNumbers[k]
         IN isolateLoop_hideOthersOnly(IF id # partId THEN hidePart(s, id) ELSE s, k + 1, partId)

\* the second loop of isolatePart over this.parts, from the k-th entry on
RECURSIVE isolateLoop(_, _, _)
isolateLoop(s, k, partId) ==
    IF k > NumParts
    THEN s
    ELSE LET id == PartNumbers[k]
         IN isolateLoop(IF id # partId THEN hidePart(s, id) ELSE showPart(s, id), k + 1, partId)

isolatePart(s, partId) ==
    LET s1 == [s EXCEPT !.preIsolationState =
                   [defined |-> TRUE, wasHidden |-> [id \in PartIds |-> s.isHidden[id]]]]
    IN updateUI(isolateLoop(s1, 1, partId))

\* the loop of showAllParts over preIsolationState, from the k-th entry on
RECURSIVE restoreLoop(_, _)
restoreLoop(s, k) ==
    IF k > NumParts
    THEN s
    ELSE LET id == PartNumbers[k]
         IN restoreLoop(IF s.preIsolationState.wasHidden[id]
                        THEN hidePart(s, id)
                        ELSE showPart(s, id), k + 1)

\* the loop of showAllParts over this.parts, from the k-th entry on
RECURSIVE showLoop(_, _)
showLoop(s, k) ==
    IF k > NumParts THEN s ELSE showLoop(showPart(s, PartNumbers[k]), k + 1)

\* a showAllParts that ignores the snapshot and shows every part
showAllParts_ignoreSnapshot(s) == updateUI(showLoop(s, 1))

showAllParts(s) ==
    updateUI(IF s.preIsolationState.defined THEN restoreLoop(s, 1) ELSE showLoop(s, 1))

\* --------------------------------------------------------- section planes
hasSectionPlane(s, partId) == partId \in DOMAIN s.sectionPlanes

MapSet(f, key, val) == [x \in DOMAIN f \cup {key} |-> IF x = key THEN val ELSE f[x]]

MapDelete(f, key) == [x \in DOMAIN f \ {key} |-> f[x]]

removeSectionPlane(s, partId) ==
    LET \* if (sectionPlane): clear the clipping planes of the mesh's current material
        s1 == IF hasSectionPlane(s, partId)
              THEN [s EXCEPT !.clippingPlanes =
                                 IF HasPart(partId)
                                 THEN [@ EXCEPT ![s.material[partId]] = <<>>]
                                 ELSE @,
                             !.sectionPlanes = MapDelete(@, partId)]
              ELSE s
        \* cross-section mesh and cutting-plane visual leave the scene
        s2 == [s1 EXCEPT !.crossSections = @ \ {partId},
                         !.cuttingPlaneVisuals = @ \ {partId}]
        \* every mesh is made visible, the sectioned part id is cleared
        s3 == [s2 EXCEPT !.meshVisible = [id \in PartIds |-> TRUE],
                         !.sectionedPartId = Null]
    IN IF s3.selectedPart = partId THEN switchToGreenHighlight(s3, partId) ELSE s3

\* ------------------------------------------------------- bounding boxes
\* Lengths are integers in model units. A slider position is given in
\* hundredths, so a coordinate of a section plane is kept in two-hundredths
\* of a unit: centre + position * size / 2 is then an integer.
Axes == {"x", "y", "z"}

Origin == [c \in Axes |-> 0]

PartIndex(id) == CHOOSE k \in 1..NumParts : PartNumbers[k] = id

\* the bounding box of the geometry of a part's mesh, in world coordinates
\* (the meshes of an OBJ assembly carry world coordinates and sit at the world
\* origin): the first part lies around the origin, the others beside it
geometryBox(id) ==
    LET k == PartIndex(id)
    IN [min |-> [x |-> 2 * k - 3, y |-> -1, z |-> 0],
        max |-> [x |-> 2 * k - 1, y |-> 1, z |-> k]]

expandByPoint(box, point) ==
    [min |-> [c \in Axes |-> IF point[c] < box.min[c] THEN point[c] ELSE box.min[c]],
     max |-> [c \in Axes |-> IF point[c] > box.max[c] THEN point[c] ELSE box.max[c]]]

\* new THREE.Box3().setFromObject(mesh): the box of the mesh's geometry,
\* expanded by every child of the mesh. The glow child added by addGlowEffect
\* is scaled by 0.0, so its geometry collapses to the origin of the mesh.
setFromObject(s, partId) ==
    IF s.glow[partId]
    THEN expandByPoint(geometryBox(partId), Origin)
    ELSE geometryBox(partId)

\* the section plane object: userData.planeType and position, the point the
\* plane passes through (in two-hundredths of a unit); box is
\* Box3().setFromObject(mesh), its centre (min + max) / 2 and its size max - min
positionSectionPlane(plane, planeType, position, box) ==
    LET axis == CASE planeType = "XY" -> "z"
                  [] planeType = "XZ" -> "y"
                  [] planeType = "YZ" -> "x"
                  [] OTHER -> Null
    IN IF axis = Null
       THEN [plane EXCEPT !.position = Origin]
       ELSE [plane EXCEPT !.position =
                [c \in Axes |-> 100 * (box.min[c] + box.max[c])
                                  + IF c = axis
                                    THEN position * (box.max[c] - box.min[c])
                                    ELSE 0]]

addClippingPlane(s, partId) ==
    [s EXCEPT !.clippingPlanes[s.material[partId]] = Append(@, partId),
              !.crossSections = @ \cup {partId},
              !.cuttingPlaneVisuals = @ \cup {partId}]

createSectionPlane(s, partId, planeType, position) ==
    IF ~HasPart(partId)
    THEN s
    ELSE LET s1 == removeSectionPlane(s, partId)
             s2 == [s1 EXCEPT !.meshVisible =
                        [id \in PartIds |-> IF id # partId THEN FALSE ELSE @[id]]]
             s3 == forceSectioningMode(s2, partId)
             plane == positionSectionPlane([planeType |-> planeType, position |-> Origin],
                                           planeType, position, setFromObject(s3, partId))
             s4 == [s3 EXCEPT !.sectionPlanes = MapSet(@, partId, plane)]
             s5 == switchToOrangeHighlight(s4, partId)
         IN addClippingPlane(s5, partId)

\* an updateSectionPlane that builds the section anew
updateSectionPlane_recreate(s, partId, position) ==
    IF hasSectionPlane(s, partId) /\ HasPart(partId)
    THEN createSectionPlane(s, partId, s.sectionPlanes[partId].planeType, position)
    ELSE s

\* the clipping planes of the mesh and of the cross-section are set anew from
\* the moved section plane; the model keeps of a clipping plane only the part
\* it was made for
updateSectionPlane(s, partId, position) ==
    IF hasSectionPlane(s, partId) /\ HasPart(partId)
    THEN [s EXCEPT !.sectionPlanes[partId] =
              positionSectionPlane(@, @.planeType, position, setFromObject(s, partId))]
    ELSE s

\* ------------------------------------------------------------ interaction
\* a getClickedPart that tries the labels before the meshes
getClickedPart_labelFirst(meshHit, labelHit) ==
    IF labelHit # Null THEN labelHit ELSE meshHit

\* getClickedPart: the ray hits the mesh of meshHit (or no mesh: Null) and the
\* label of labelHit (or no label: Null); a mesh hit is preferred
getClickedPart(meshHit, labelHit) ==
    IF meshHit # Null THEN meshHit ELSE labelHit

\* a handleMouseMove that also highlights the part under the pointer
handleMouseMove_hoverHighlight(s, meshHit, labelHit) ==
    LET part == getClickedPart(meshHit, labelHit)
    IN IF part # Null
       THEN highlightPart([s EXCEPT !.cursor = "pointer"], part)
       ELSE [s EXCEPT !.cursor = "default"]

handleMouseMove(s, meshHit, labelHit) ==
    LET part == getClickedPart(meshHit, labelHit)
    IN [s EXCEPT !.cursor = IF part # Null THEN "pointer" ELSE "default"]

\* a handleClick that does not look at the section mode
handleClick_noGuard(s, meshHit, labelHit) ==
    LET part == getClickedPart(meshHit, labelHit)
    IN IF part # Null THEN selectPart(s, part) ELSE deselectAllParts(s)

handleClick(s, meshHit, labelHit) ==
    IF isInSectioningMode(s)
    THEN s
    ELSE LET part == getClickedPart(meshHit, labelHit)
         IN IF part # Null THEN selectPart(s, part) ELSE deselectAllParts(s)

\* ---------------------------------------------------------- PartAnalyzer
\* Text is held as sequences of one-character strings.
UpperCase ==
    <<"A", "B", "C", "D", "E", "F", "G", "H", "I", "J", "K", "L", "M",
      "N", "O", "P", "Q", "R", "S", "T", "U", "V", "W", "X", "Y", "Z">>
LowerCase ==
    <<"a", "b", "c", "d", "e", "f", "g", "h", "i", "j", "k", "l", "m",
      "n", "o", "p", "q", "r", "s", "t", "u", "v", "w", "x", "y", "z">>

\* String.prototype.toLowerCase
toLowerCase(str) ==
    [i \in 1..Len(str) |->
        IF \E k \in 1..Len(UpperCase) : UpperCase[k] = str[i]
        THEN LowerCase[CHOOSE k \in 1..Len(UpperCase) : UpperCase[k] = str[i]]
        ELSE str[i]]

\* String.prototype.includes
includes(str, sub) ==
    \E i \in 0..(Len(str) - Len(sub)) : SubSeq(str, i + 1, i + Len(sub)) = sub

\* a detectPartType that tests elbow/bend before pipe/tube
detectPartType_elbowFirst(name) ==
    IF name = <<>>
    THEN "Unknown"
    ELSE LET lowerName == toLowerCase(name)
         IN
            IF includes(lowerName, <<"e", "l", "b", "o", "w">>) \/ includes(lowerName, <<"b", "e", "n", "d">>) THEN "Elbow"
            ELSE IF includes(lowerName, <<"p", "i", "p", "e">>) \/ includes(lowerName, <<"t", "u", "b", "e">>) THEN "Pipe"
            ELSE IF includes(lowerName, <<"f", "l", "a", "n", "g", "e">>) THEN "Flange"
            ELSE IF includes(lowerName, <<"t", "e", "e">>) \/ includes(lowerName, <<"t", "-", "j", "o", "i", "n", "t">>) THEN "Tee"
            ELSE IF includes(lowerName, <<"v", "a", "l", "v", "e">>) THEN "Valve"
            ELSE IF includes(lowerName, <<"f", "i", "t", "t", "i", "n", "g">>) THEN "Fitting"
            ELSE IF includes(lowerName, <<"s", "u", "p", "p", "o", "r", "t">>) \/ includes(lowerName, <<"b", "r", "a", "c", "k", "e", "t">>) THEN "Support"
            ELSE IF includes(lowerName, <<"g", "a", "s", "k", "e", "t">>) \/ includes(lowerName, <<"s", "e", "a", "l">>) THEN "Gasket"
            ELSE IF includes(lowerName, <<"b", "o", "l", "t">>) \/ includes(lowerName, <<"s", "c", "r", "e", "w">>) THEN "Fastener"
            ELSE IF includes(lowerName, <<"n", "u", "t">>) THEN "Nut"
            ELSE "Component"

detectPartType(name) ==
    IF name = <<>>
    THEN "Unknown"
    ELSE LET lowerName == toLowerCase(name)
         IN
            IF includes(lowerName, <<"p", "i", "p", "e">>) \/ includes(lowerName, <<"t", "u", "b", "e">>) THEN "Pipe"
            ELSE IF includes(lowerName, <<"f", "l", "a", "n", "g", "e">>) THEN "Flange"
            ELSE IF includes(lowerName, <<"e", "l", "b", "o", "w">>) \/ includes(lowerName, <<"b", "e", "n", "d">>) THEN "Elbow"
            ELSE IF includes(lowerName, <<"t", "e", "e">>) \/ includes(lowerName, <<"t", "-", "j", "o", "i", "n", "t">>) THEN "Tee"
            ELSE IF includes(lowerName, <<"v", "a", "l", "v", "e">>) THEN "Valve"
            ELSE IF includes(lowerName, <<"f", "i", "t", "t", "i", "n", "g">>) THEN "Fitting"
            ELSE IF includes(lowerName, <<"s", "u", "p", "p", "o", "r", "t">>) \/ includes(lowerName, <<"b", "r", "a", "c", "k", "e", "t">>) THEN "Support"
            ELSE IF includes(lowerName, <<"g", "a", "s", "k", "e", "t">>) \/ includes(lowerName, <<"s", "e", "a", "l">>) THEN "Gasket"
            ELSE IF includes(lowerName, <<"b", "o", "l", "t">>) \/ includes(lowerName, <<"s", "c", "r", "e", "w">>) THEN "Fastener"
            ELSE IF includes(lowerName, <<"n", "u", "t">>) THEN "Nut"
            ELSE "Component"

\* the decimal digits, for the numbers written into names
DigitChars == <<"1", "2", "3", "4", "5", "6", "7", "8", "9">>

\* `Part_${n}`
defaultName(n) == <<"P", "a", "r", "t", "_", DigitChars[n]>>

\* `P-${partCount.toString().padStart(3, '0')}` for the counts PartNumbers lists
partNumberOf(partCount) == PartNumbers[partCount]

\* a generatePartNumber that counts the parts opened, kept or not
generatePartNumber_countOpened(acceptedParts, opened) == partNumberOf(opened + 1)

\* generatePartNumber reads this.parts.length, the number of accepted parts;
\* opened (the parts opened so far) is not read
generatePartNumber(acceptedParts, opened) == partNumberOf(Len(acceptedParts) + 1)

\* a value that is null or undefined
NullValue == [isNull |-> TRUE]

\* the analyzer object right after the constructor
NewAnalyzer == [parts |-> <<>>, currentPart |-> NullValue]

Least(S) == CHOOSE m \in S : \A x \in S : m <= x

\* Infinity, above every coordinate of the files modelled
Infinity == 1000000

MathMin(a, b) == IF a <= b THEN a ELSE b
MathMax(a, b) == IF a >= b THEN a ELSE b

\* the loop of calculateBoundingBox from vertex k on; acc holds minX .. maxZ
RECURSIVE boundsLoop(_, _, _)
boundsLoop(vertices, k, acc) ==
    IF k > Len(vertices)
    THEN acc
    ELSE boundsLoop(vertices, k + 1,
                    [minX |-> MathMin(acc.minX, vertices[k].x),
                     minY |-> MathMin(acc.minY, vertices[k].y),
                     minZ |-> MathMin(acc.minZ, vertices[k].z),
                     maxX |-> MathMax(acc.maxX, vertices[k].x),
                     maxY |-> MathMax(acc.maxY, vertices[k].y),
                     maxZ |-> MathMax(acc.maxZ, vertices[k].z)])

\* a calculateBoundingBox whose minima and maxima start at 0
calculateBoundingBox_fromZero(part) ==
    IF Len(part.vertices) = 0
    THEN part
    ELSE LET b == boundsLoop(part.vertices, 1,
                             [minX |-> 0, minY |-> 0, minZ |-> 0,
                              maxX |-> 0, maxY |-> 0, maxZ |-> 0])
         IN [part EXCEPT
                !.boundingBox = [isNull |-> FALSE,
                                 min |-> [x |-> b.minX, y |-> b.minY, z |-> b.minZ],
                                 max |-> [x |-> b.maxX, y |-> b.maxY, z |-> b.maxZ]],
                !.center = [isNull |-> FALSE,
                            x |-> b.minX + b.maxX,
                            y |-> b.minY + b.maxY,
                            z |-> b.minZ + b.maxZ],
                !.size = [isNull |-> FALSE,
                          x |-> b.maxX - b.minX,
                          y |-> b.maxY - b.minY,
                          z |-> b.maxZ - b.minZ]]

\* calculateBoundingBox; center is kept in halves of a unit, so that
\* (min + max) / 2 is the integer min + max
calculateBoundingBox(part) ==
    IF Len(part.vertices) = 0
    THEN part
    ELSE LET b == boundsLoop(part.vertices, 1,
                             [minX |-> Infinity, minY |-> Infinity, minZ |-> Infinity,
                              maxX |-> -Infinity, maxY |-> -Infinity, maxZ |-> -Infinity])
         IN [part EXCEPT
                !.boundingBox = [isNull |-> FALSE,
                                 min |-> [x |-> b.minX, y |-> b.minY, z |-> b.minZ],
                                 max |-> [x |-> b.maxX, y |-> b.maxY, z |-> b.maxZ]],
                !.center = [isNull |-> FALSE,
                            x |-> b.minX + b.maxX,
                            y |-> b.minY + b.maxY,
                            z |-> b.minZ + b.maxZ],
                !.size = [isNull |-> FALSE,
                          x |-> b.maxX - b.minX,
                          y |-> b.maxY - b.minY,
                          z |-> b.maxZ - b.minZ]]

validatePart(part) ==
    /\ Len(part.vertices) > 0
    /\ Len(part.faces) > 0
    /\ ~part.boundingBox.isNull
    /\ part.size.x > 0
    /\ part.size.y > 0
    /\ part.size.z > 0

\* a finalizePart that keeps every part that has vertices
finalizePart_noValidation(a) ==
    IF a.currentPart.isNull
    THEN a
    ELSE IF Len(a.currentPart.vertices) = 0
    THEN a
    ELSE [parts |-> Append(a.parts, calculateBoundingBox(a.currentPart)),
          currentPart |-> NullValue]

\* finalizePart: the early return leaves currentPart as it is
finalizePart(a) ==
    IF a.currentPart.isNull
    THEN a
    ELSE IF Len(a.currentPart.vertices) = 0
    THEN a
    ELSE LET part == calculateBoundingBox(a.currentPart)
         IN [parts |-> IF validatePart(part) THEN Append(a.parts, part) ELSE a.parts,
             currentPart |-> NullValue]

\* opened: the number of parts opened before this one during the call
handleObjectName(a, name, opened) ==
    LET a1 == IF ~a.currentPart.isNull THEN finalizePart(a) ELSE a
    IN [a1 EXCEPT !.currentPart =
           [isNull |-> FALSE,
            name |-> IF name # <<>> THEN name ELSE defaultName(Len(a1.parts) + 1),
            vertices |-> <<>>,
            faces |-> <<>>,
            boundingBox |-> NullValue,
            center |-> NullValue,
            size |-> NullValue,
            partNumber |-> generatePartNumber(a1.parts, opened),
            type |-> detectPartType(name)]]

\* a handleGroupName that starts a new part on every g line
handleGroupName_alwaysNew(a, name, opened) ==
    IF a.currentPart.isNull
    THEN handleObjectName(a, name, opened)
    ELSE handleObjectName(finalizePart(a), name, opened)

handleGroupName(a, name, opened) ==
    IF a.currentPart.isNull
    THEN handleObjectName(a, name, opened)
    ELSE IF name # <<>> /\ name # a.currentPart.name
    THEN handleObjectName(finalizePart(a), name, opened)
    ELSE a

\* does the g line open a part
groupOpensPart(a, name) ==
    a.currentPart.isNull \/ (name # <<>> /\ name # a.currentPart.name)

\* a token of a v or f line: numeric text with its value, or text that
\* parseFloat / parseInt turn into NaN (letters, or nothing at all)
NumToken(n) == [numeric |-> TRUE, value |-> n]
NaNToken == [numeric |-> FALSE, value |-> 0]

parseFloat(token) == [isNaN |-> ~token.numeric, value |-> token.value]

\* parseInt of the text before the first '/' of a face token
parseInt(token) == [isNaN |-> ~token.numeric, value |-> token.value]

\* the callback of coords.map throws
handleVertexThrows(coords) == \E i \in 1..Len(coords) : parseFloat(coords[i]).isNaN

\* a handleVertex that stores 0 for a coordinate it cannot read
handleVertex_zeroForNaN(a, coords) ==
    IF ~a.currentPart.isNull /\ Len(coords) >= 3
    THEN [a EXCEPT !.currentPart.vertices =
              Append(@, [x |-> parseFloat(coords[1]).value,
                         y |-> parseFloat(coords[2]).value,
                         z |-> parseFloat(coords[3]).value])]
    ELSE a

\* handleVertex; when the callback throws, the catch in analyzeOBJ goes on
\* with the next line and nothing has been pushed
handleVertex(a, coords) ==
    IF ~a.currentPart.isNull /\ Len(coords) >= 3
    THEN IF handleVertexThrows(coords)
         THEN a
         ELSE [a EXCEPT !.currentPart.vertices =
                   Append(@, [x |-> parseFloat(coords[1]).value,
                              y |-> parseFloat(coords[2]).value,
                              z |-> parseFloat(coords[3]).value])]
    ELSE a

handleFaceThrows(faceData) ==
    \E i \in 1..Len(faceData) : parseInt(faceData[i]).isNaN \/ parseInt(faceData[i]).value < 1

\* the face: vertexIndex is the 1-based index of the file minus one; the
\* texture and normal indices are read by nothing modelled here
faceOf(faceData) == [i \in 1..Len(faceData) |-> [vertexIndex |-> parseInt(faceData[i]).value - 1]]

handleFace(a, faceData) ==
    IF ~a.currentPart.isNull /\ Len(faceData) >= 3
    THEN IF handleFaceThrows(faceData)
         THEN a
         ELSE [a EXCEPT !.currentPart.faces = Append(@, faceOf(faceData))]
    ELSE a

\* a line of the file after trim() and split(/\s+/)
OLine(name) == [command |-> "o", name |-> name, args |-> <<>>]
GLine(name) == [command |-> "g", name |-> name, args |-> <<>>]
VLine(coords) == [command |-> "v", name |-> <<>>, args |-> coords]
FLine(faceData) == [command |-> "f", name |-> <<>>, args |-> faceData]
CommentLine == [command |-> "#", name |-> <<>>, args |-> <<>>]

\* the body of the loop of analyzeOBJ for one line
processLine(a, line, opened) ==
    IF line.command = "o" THEN handleObjectName(a, line.name, opened)
    ELSE IF line.command = "g" THEN handleGroupName(a, line.name, opened)
    ELSE IF line.command = "v" THEN handleVertex(a, line.args)
    ELSE IF line.command = "f" THEN handleFace(a, line.args)
    ELSE a

\* does the line open a part
opensPart(a, line) ==
    line.command = "o" \/ (line.command = "g" /\ groupOpensPart(a, line.name))

\* the loop of analyzeOBJ from line k on
RECURSIVE scanLines(_, _, _, _)
scanLines(a, lines, k, opened) ==
    IF k > Len(lines)
    THEN a
    ELSE scanLines(processLine(a, lines[k], opened), lines, k + 1,
                   IF opensPart(a, lines[k]) THEN opened + 1 ELSE opened)

\* a reset that clears currentPart and keeps the parts of the previous call
resetFields_keepParts(a) == [a EXCEPT !.currentPart = NullValue]

\* the start of analyzeOBJ: this.parts = [], this.currentPart = null
resetFields(a) == NewAnalyzer

\* the end of analyzeOBJ: the last part is finalized
finishAnalysis(a) == IF ~a.currentPart.isNull THEN finalizePart(a) ELSE a

\* analyzeOBJ as a whole, on the analyzer a: the analyzer afterwards and the
\* array returned; content with no line at all is the empty string, which
\* is refused before the fields are reset
analyzeOBJ(a, lines) ==
    IF lines = <<>>
    THEN [analyzer |-> a, returned |-> <<>>]
    ELSE LET a1 == finishAnalysis(scanLines(resetFields(a), lines, 1, 0))
         IN [analyzer |-> a1, returned |-> a1.parts]

\* ------------------------------------------------------------- OBJ input
NameA == <<"N", "u", "t">>
NameB == <<"p", "i", "p", "e">>

V000 == VLine(<<NumToken(0), NumToken(0), NumToken(0)>>)
V111 == VLine(<<NumToken(1), NumToken(1), NumToken(1)>>)
V110 == VLine(<<NumToken(1), NumToken(1), NumToken(0)>>)
\* v 1 abc 1
VBad == VLine(<<NumToken(1), NaNToken, NumToken(1)>>)
\* f 1 2 1
F121 == FLine(<<NumToken(1), NumToken(2), NumToken(1)>>)
\* f 3 4 3: the face of a second object of two vertices, in the numbering of the file
F343 == FLine(<<NumToken(3), NumToken(4), NumToken(3)>>)
\* f 1 0 2
FBad == FLine(<<NumToken(1), NumToken(0), NumToken(2)>>)
\* f 1 /1 2: a token with no vertex index
FMissing == FLine(<<NumToken(1), NaNToken, NumToken(2)>>)

\* v -1 2 0 and v 2 -1 3
VLow == VLine(<<NumToken(-1), NumToken(2), NumToken(0)>>)
VHigh == VLine(<<NumToken(2), NumToken(-1), NumToken(3)>>)

\* the lines of a file that is read line by line
FileLines == {V000, V111, VLow, VHigh, F121, GLine(NameA), GLine(NameB)}

\* is the line one whose handler throws
Malformed(line) ==
    \/ line.command = "v" /\ Len(line.args) >= 3 /\ handleVertexThrows(line.args)
    \/ line.command = "f" /\ Len(line.args) >= 3 /\ handleFaceThrows(line.args)

\* the o and g lines that start a block of lines
Headers == {OLine(NameA), OLine(<<>>), GLine(NameA), GLine(NameB), GLine(<<>>)}

\* the lines of a block after its first line
Bodies ==
    {<<>>,
     <<V000>>,
     <<V000, V110, F121>>,
     <<V000, V111, F121>>,
     <<V000, V111, F343>>,
     <<V000, VBad, V111, FBad, F121>>,
     <<CommentLine, V111, FMissing, F121>>}

Blocks == {<<h>> \o b : h \in Headers, b \in Bodies}

\* the files of at most n blocks
RECURSIVE TextsOf(_)
TextsOf(n) ==
    IF n = 0
    THEN {<<>>}
    ELSE LET shorter == TextsOf(n - 1)
         IN shorter \cup {text \o b : text \in shorter, b \in Blocks}

Texts == TextsOf(MaxObjects)

\* the current analyzer object
Analyzer == [parts |-> parts, currentPart |-> currentPart]

registryVars == <<progVars, lastOp, sectionSince, isolation, appVars>>

\* ------------------------------------------------------------ the session
\* part.name of the registered parts
ModelPartNames == <<"Pipe", "pipe", "Elbow", "Pipe", "Tee">>

partName(id) == ModelPartNames[PartIndex(id)]

\* partNames of scanResourcesFolder: the names of this.parts in insertion order
partNames == [k \in 1..NumParts |-> partName(PartNumbers[k])]

\* the name of the Group that OBJLoader returns, the parent of every mesh
ParentName == <<>>

\* parts.find(p => p.name === child.name || p.name === child.parent.name):
\* the index of the part found, 0 for undefined
find(parsed, childName) ==
    LET hits == {i \in 1..Len(parsed) :
                    parsed[i].name = childName \/ parsed[i].name = ParentName}
    IN IF hits = {} THEN 0 ELSE Least(hits)

\* partManager.parts.size after the addPart calls made: a Map keeps one entry
\* for each key
registrySize(made) == Cardinality({made[i] : i \in 1..Len(made)})

\* the partData of a mesh: the part found, or a generated one
partData(parsed, childName, made) ==
    IF find(parsed, childName) # 0
    THEN [partNumber |-> parsed[find(parsed, childName)].partNumber]
    ELSE [partNumber |-> partNumberOf(registrySize(made) + 1)]

\* object.traverse from mesh k on: the part numbers passed to addPart
RECURSIVE traverse(_, _, _, _)
traverse(parsed, meshes, k, made) ==
    IF k > Len(meshes)
    THEN made
    ELSE traverse(parsed, meshes, k + 1,
                  Append(made, partData(parsed, meshes[k], made).partNumber))

\* a HEAD request is answered with an OK response, with another response,
\* with a network error, or never
Fates == {"ok", "notFound", "error", "never"}

\* the video fields of the manager and the play button
Video ==
    [videoSequences |-> videoSequences,
     playButtonDisabled |-> playButtonDisabled,
     currentVideo |-> currentVideo]

CommitVideo(v) ==
    /\ videoSequences' = v.videoSequences
    /\ playButtonDisabled' = v.playButtonDisabled
    /\ currentVideo' = v.currentVideo

\* registered: this.parts holds the parts of the model
updateVideoControls(v, registered, partId) ==
    LET hasVideo == /\ partId # Null
                    /\ registered /\ HasPart(partId)
                    /\ partName(partId) \in v.videoSequences
    IN [v EXCEPT !.playButtonDisabled = ~hasVideo]

stopVideo(v) == [v EXCEPT !.currentVideo = Null]

createVideoOverlay(v, partId) == [v EXCEPT !.currentVideo = partId]

\* a playVideo that does not look for the video of the part
playVideo_noVideoCheck(v, registered, partId) ==
    IF v.playButtonDisabled
    THEN v
    ELSE IF ~(registered /\ HasPart(partId))
    THEN v
    ELSE createVideoOverlay(stopVideo(v), partId)

playVideo(v, registered, partId) ==
    IF v.playButtonDisabled
    THEN v
    ELSE IF ~(registered /\ HasPart(partId))
    THEN v
    ELSE IF partName(partId) \notin v.videoSequences
    THEN v
    ELSE createVideoOverlay(stopVideo(v), partId)

\* a test of the response that lets every response pass
responseOk_always(response) == response # "networkError"

\* response.ok of a settled fetch
responseOk(response) == response = "ok"

\* ----------------------------------------------------------- the settings
\* Numbers are kept in hundredths (roughness 0.2 is 20, intensity 1.0 is 100).
\* A colour is its six hex digits; the text of a colour is the digits with or
\* without a leading '#'.
Colors == {"1a1a1a", "ff0000"}
Roughnesses == {20, 50}
LightIntensities == {100, 150}
ShadowQualities == {2048, 1024}
UpAxes == {"Y", "Z"}
ApplyScopes == {"global", "session"}

\* the values set by the script before loadSettings runs, and by resetSettings
DefaultSettings ==
    [color |-> "1a1a1a", roughness |-> 20, lightIntensity |-> 100, shadowQuality |-> 2048,
     upAxis |-> "Y", applyScope |-> "global", orthographic |-> FALSE]

\* the value of a colour input
ColorInput(c) == [hash |-> TRUE, hex |-> c]

\* Color.getHexString(): the digits, no '#'
getHexString(color) == [hash |-> FALSE, hex |-> color]

\* Color.set(text): '#' and hex digits set the colour; hex digits alone are no
\* colour name, the colour stays as it is
setStyle(color, style) == IF style.hash THEN style.hex ELSE color

\* String(number) and String(boolean), as setItem stores them
numberToString(n) == NumToken(n)
booleanToString(b) == IF b THEN "true" ELSE "false"

\* an item of localStorage; getItem gives null for an item that is not there
Item(v) == [present |-> TRUE, value |-> v]
NoItem(v) == [present |-> FALSE, value |-> v]

\* localStorage after clear()
EmptyStorage ==
    [materialColor |-> NoItem(getHexString("")), roughness |-> NoItem(NaNToken),
     lightIntensity |-> NoItem(NaNToken), shadowQuality |-> NoItem(NaNToken),
     upAxis |-> NoItem(""), applyScope |-> NoItem(""), orthographic |-> NoItem("")]

\* localStorage.getItem(key) || default
getItemOr(item, default) == IF item.present THEN item.value ELSE default

\* the script's settings and localStorage as one record
Config == [settings |-> settings, localStorage |-> localStorage]

CommitConfig(c) ==
    /\ settings' = c.settings
    /\ localStorage' = c.localStorage

\* a saveSettings that writes in every scope
saveSettings_anyScope(c) ==
    [c EXCEPT !.localStorage =
        [materialColor |-> Item(getHexString(c.settings.color)),
         roughness |-> Item(numberToString(c.settings.roughness)),
         lightIntensity |-> Item(numberToString(c.settings.lightIntensity)),
         shadowQuality |-> Item(numberToString(c.settings.shadowQuality)),
         upAxis |-> Item(c.settings.upAxis),
         applyScope |-> Item(c.settings.applyScope),
         orthographic |-> Item(booleanToString(c.settings.orthographic))]]

saveSettings(c) ==
    IF c.settings.applyScope = "global"
    THEN [c EXCEPT !.localStorage =
             [materialColor |-> Item(getHexString(c.settings.color)),
              roughness |-> Item(numberToString(c.settings.roughness)),
              lightIntensity |-> Item(numberToString(c.settings.lightIntensity)),
              shadowQuality |-> Item(numberToString(c.settings.shadowQuality)),
              upAxis |-> Item(c.settings.upAxis),
              applyScope |-> Item(c.settings.applyScope),
              orthographic |-> Item(booleanToString(c.settings.orthographic))]]
    ELSE c

loadSettings(c) ==
    LET ls == c.localStorage
        savedMaterialColor == getItemOr(ls.materialColor, ColorInput("1a1a1a"))
        savedRoughness == parseFloat(getItemOr(ls.roughness, numberToString(20))).value
        savedLightIntensity ==
            parseFloat(getItemOr(ls.lightIntensity, numberToString(100))).value
        savedShadowQuality ==
            parseInt(getItemOr(ls.shadowQuality, numberToString(2048))).value
        savedUpAxis == getItemOr(ls.upAxis, "Y")
        savedApplyScope == getItemOr(ls.applyScope, "global")
        savedOrthographic == getItemOr(ls.orthographic, "") = "true"
    IN [c EXCEPT !.settings =
           [color |-> setStyle(c.settings.color, savedMaterialColor),
            roughness |-> savedRoughness,
            lightIntensity |-> savedLightIntensity,
            shadowQuality |-> savedShadowQuality,
            upAxis |-> savedUpAxis,
            applyScope |-> savedApplyScope,
            orthographic |-> savedOrthographic]]

resetSettings(c) == [settings |-> DefaultSettings, localStorage |-> EmptyStorage]

\* the listeners of the settings controls
upAxisChange(c, value) == saveSettings([c EXCEPT !.settings.upAxis = value])

materialColorInput(c, value) ==
    saveSettings([c EXCEPT !.settings.color = setStyle(@, value)])

glossinessInput(c, value) ==
    saveSettings([c EXCEPT !.settings.roughness = parseFloat(value).value])

lightIntensityInput(c, value) ==
    saveSettings([c EXCEPT !.settings.lightIntensity = parseFloat(value).value])

shadowQualityChange(c, value) ==
    saveSettings([c EXCEPT !.settings.shadowQuality = parseInt(value).value])

toggleCameraMode(c, checked) == [c EXCEPT !.settings.orthographic = checked]

applyScopeChange(c, value) == saveSettings([c EXCEPT !.settings.applyScope = value])

\* mesh.material = hdpeMaterial for every part, unless ghost mode is on
resetMaterials(s) ==
    IF s.isGhostMode THEN s ELSE [s EXCEPT !.material = [id \in PartIds |-> hdpeMaterial]]

\* ------------------------------------------------------------------ touch
\* two single-finger touchstarts closer than this many ms are a double tap
DoubleTapWindow == 300

\* Date.now() when the page is set up
StartTime == 1000000

\* ms between a touchstart and the one before
Gaps == {0, 299, DoubleTapWindow, 1000}

\* the fields written by the touchstart listener; fitted tells whether the
\* listener has called fitCameraToObject
Touch ==
    [lastTouchTime |-> lastTouchTime, touchCount |-> touchCount, cameraFit |-> cameraFit,
     fitted |-> FALSE]

\* a touchstart listener that keeps the time of the second tap
touchstart_keepTime(t, touches, currentTime, modelLoaded) ==
    IF touches = 1
    THEN IF currentTime - t.lastTouchTime < DoubleTapWindow
         THEN [t EXCEPT !.touchCount = touches,
                        !.cameraFit = IF modelLoaded THEN TRUE ELSE @,
                        !.fitted = modelLoaded,
                        !.lastTouchTime = currentTime]
         ELSE [t EXCEPT !.touchCount = touches, !.lastTouchTime = currentTime]
    ELSE [t EXCEPT !.touchCount = touches]

\* the touchstart listener of the canvas: touches is e.touches.length,
\* currentTime is Date.now(), modelLoaded says that modelGroup is set
touchstart(t, touches, currentTime, modelLoaded) ==
    IF touches = 1
    THEN IF currentTime - t.lastTouchTime < DoubleTapWindow
         THEN [t EXCEPT !.touchCount = touches,
                        !.cameraFit = IF modelLoaded THEN TRUE ELSE @,
                        !.fitted = modelLoaded,
                        !.lastTouchTime = 0]
         ELSE [t EXCEPT !.touchCount = touches, !.lastTouchTime = currentTime]
    ELSE [t EXCEPT !.touchCount = touches]

\* the settings, the camera and the touch fields of a page that was just set
\* up with nothing stored
PageSetUp ==
    /\ settings = DefaultSettings
    /\ localStorage = EmptyStorage
    /\ cameraFit = TRUE
    /\ now = StartTime
    /\ lastTouchTime = 0
    /\ touchCount = 0
    /\ tapCount = 0
    /\ lastTapAt = 0
    /\ runLength = 0
    /\ runResets = 0

\* the state of the session when the model is loaded, no video was found
\* and nothing is pending
AppLoaded ==
    /\ PageSetUp
    /\ loadPc = "loaded"
    /\ fetchResponse = "ok"
    /\ status = "loaded"
    /\ partsRegistered = TRUE
    /\ addPartCalls = [k \in 1..NumParts |-> PartNumbers[k]]
    /\ animating = TRUE
    /\ scanPc = "done"
    /\ scanIndex = NumParts
    /\ probeFate = [name \in {partNames[k] : k \in 1..NumParts} |-> "notFound"]
    /\ videoSequences = {}
    /\ videoTimers = <<>>
    /\ playButtonDisabled = TRUE
    /\ currentVideo = Null

\* the analyzer after its constructor, no call made
AnalyzerConstructed ==
    /\ parts = NewAnalyzer.parts
    /\ currentPart = NewAnalyzer.currentPart
    /\ objContent = <<>>
    /\ lineNumber = 0
    /\ pc = "idle"
    /\ result = <<>>
    /\ calls = 0
    /\ openedCount = 0
    /\ typeName = <<>>
    /\ typeResult = "none"

\* analyzeOBJ is called: with any file the first time, then with the same
\* file again or with a file of one block
AnalyzeOBJ ==
    /\ pc \in {"idle", "done"}
    /\ calls < MaxCalls
    /\ \E text \in (IF pc = "idle" THEN Texts ELSE {objContent} \cup TextsOf(1)) :
          /\ objContent' = text
          /\ IF text = <<>>
             THEN /\ result' = <<>>
                  /\ pc' = "done"
                  /\ UNCHANGED <<parts, currentPart>>
             ELSE /\ parts' = resetFields(Analyzer).parts
                  /\ currentPart' = resetFields(Analyzer).currentPart
                  /\ pc' = "scan"
                  /\ UNCHANGED result
    /\ lineNumber' = 0
    /\ calls' = calls + 1
    /\ openedCount' = 0
    /\ UNCHANGED <<typeName, typeResult, registryVars>>

\* one turn of the loop of analyzeOBJ
ProcessLine ==
    /\ pc = "scan"
    /\ lineNumber < Len(objContent)
    /\ LET line == objContent[lineNumber + 1]
           a == processLine(Analyzer, line, openedCount)
       IN /\ parts' = a.parts
          /\ currentPart' = a.currentPart
          /\ openedCount' = IF opensPart(Analyzer, line) THEN openedCount + 1 ELSE openedCount
    /\ lineNumber' = lineNumber + 1
    /\ UNCHANGED <<objContent, pc, result, calls, typeName, typeResult, registryVars>>

\* the loop is over: the last part is finalized and this.parts is returned
ReturnParts ==
    /\ pc = "scan"
    /\ lineNumber = Len(objContent)
    /\ LET a == finishAnalysis(Analyzer)
       IN /\ parts' = a.parts
          /\ currentPart' = a.currentPart
          /\ result' = a.parts
    /\ pc' = "done"
    /\ UNCHANGED <<objContent, lineNumber, calls, openedCount, typeName, typeResult, registryVars>>

\* detectPartType(typeName) is called
DetectPartType ==
    /\ typeResult = "none"
    /\ typeResult' = detectPartType(typeName)
    /\ UNCHANGED <<parts, currentPart, objContent, lineNumber, pc, result, calls, openedCount,
                   typeName, registryVars>>

\* pieces of part names
NameFragments ==
    {<<"p", "i", "p", "e">>,
     <<"T", "u", "b", "e">>,
     <<"F", "L", "A", "N", "G", "E">>,
     <<"e", "l", "b", "o", "w">>,
     <<"B", "e", "n", "d">>,
     <<"t", "e", "e">>,
     <<"T", "-", "J", "o", "i", "n", "t">>,
     <<"v", "a", "l", "v", "e">>,
     <<"F", "i", "t", "t", "i", "n", "g">>,
     <<"s", "u", "p", "p", "o", "r", "t">>,
     <<"b", "r", "a", "c", "k", "e", "t">>,
     <<"g", "a", "s", "k", "e", "t">>,
     <<"S", "e", "a", "l">>,
     <<"b", "o", "l", "t">>,
     <<"s", "c", "r", "e", "w">>,
     <<"n", "u", "t">>,
     <<"s">>,
     <<"l">>,
     <<"_">>,
     <<"P", "a", "r", "t">>}

\* the names of at most n pieces
RECURSIVE NamesOf(_)
NamesOf(n) ==
    IF n = 0
    THEN {<<>>}
    ELSE LET shorter == NamesOf(n - 1)
         IN shorter \cup {name \o f : name \in shorter, f \in NameFragments}

TypeNames == NamesOf(MaxWords)

\* ---------------------------------------------------------------- actions
\* the calls themselves, as relations between the current and the next
\* program state
Call_selectPart(id) == Commit(selectPart(State, id))
Call_deselectAllParts == Commit(deselectAllParts(State))
Call_highlightPart(id) == Commit(highlightPart(State, id))
Call_removeHighlight(id) == Commit(removeHighlight(State, id))
Call_hidePart(id) == Commit(hidePart(State, id))
Call_showPart(id) == Commit(showPart(State, id))
Call_togglePartVisibility(id) == Commit(togglePartVisibility(State, id))
Call_isolatePart(id) == Commit(isolatePart(State, id))
Call_showAllParts == Commit(showAllParts(State))
Call_createSectionPlane(id, planeType, position) ==
    Commit(createSectionPlane(State, id, planeType, position))
Call_updateSectionPlane(id, position) == Commit(updateSectionPlane(State, id, position))
Call_removeSectionPlane(id) == Commit(removeSectionPlane(State, id))
Call_update == Commit(update(State))

\* the current program state is s
IsState(s) ==
    /\ isSelected = s.isSelected
    /\ isHighlighted = s.isHighlighted
    /\ isHidden = s.isHidden
    /\ meshVisible = s.meshVisible
    /\ labelVisible = s.labelVisible
    /\ material = s.material
    /\ glow = s.glow
    /\ clippingPlanes = s.clippingPlanes
    /\ selectedPart = s.selectedPart
    /\ visibleParts = s.visibleParts
    /\ highlightedParts = s.highlightedParts
    /\ sectionPlanes = s.sectionPlanes
    /\ crossSections = s.crossSections
    /\ cuttingPlaneVisuals = s.cuttingPlaneVisuals
    /\ sectionedPartId = s.sectionedPartId
    /\ preIsolationState = s.preIsolationState
    /\ isGhostMode = s.isGhostMode
    /\ infoOverlay = s.infoOverlay
    /\ partsList = s.partsList
    /\ cursor = s.cursor

\* history: stages of isolation
\*   "none"         no isolatePart is outstanding
\*   "justIsolated" the last call was isolatePart(id); hiddenBefore holds the flags before it
\*   "outstanding"  isolatePart was called, other calls followed, no showAllParts yet
\*   "restored"     the last two calls were isolatePart(id) and showAllParts()
NoIsolation == [stage |-> "none", id |-> Null, hiddenBefore |-> [p \in PartIds |-> FALSE]]

\* history kept by a call that is neither isolatePart nor showAllParts
IsolationAfterOther ==
    isolation' = IF isolation.stage \in {"justIsolated", "outstanding"}
                 THEN [NoIsolation EXCEPT !.stage = "outstanding"]
                 ELSE NoIsolation

\* history kept by the call named op, which is no section call
Plain(op) == lastOp' = op /\ IsolationAfterOther /\ UNCHANGED sectionSince

ClipBounded(s) == \A m \in Materials : Len(s.clippingPlanes[m]) <= MaxClip

\* the state after loading
Init ==
    /\ IsState(InitState)
    /\ AnalyzerConstructed
    /\ AppLoaded
    /\ lastOp = "load"
    /\ sectionSince = Null
    /\ isolation = NoIsolation

SelectPart == \E id \in Ids : Call_selectPart(id) /\ Plain("selectPart")

DeselectAllParts == Call_deselectAllParts /\ Plain("deselectAllParts")

HighlightPart == \E id \in Ids : Call_highlightPart(id) /\ Plain("highlightPart")

RemoveHighlight == \E id \in Ids : Call_removeHighlight(id) /\ Plain("removeHighlight")

HidePart == \E id \in Ids : Call_hidePart(id) /\ Plain("hidePart")

ShowPart == \E id \in Ids : Call_showPart(id) /\ Plain("showPart")

TogglePartVisibility ==
    \E id \in Ids : Call_togglePartVisibility(id) /\ Plain("togglePartVisibility")

IsolatePart ==
    \E id \in Ids :
        /\ Call_isolatePart(id)
        /\ lastOp' = "isolatePart"
        /\ isolation' = [stage |-> "justIsolated", id |-> id, hiddenBefore |-> isHidden]
        /\ UNCHANGED sectionSince

ShowAllParts ==
    /\ Call_showAllParts
    /\ lastOp' = "showAllParts"
    /\ isolation' = IF isolation.stage = "justIsolated"
                    THEN [isolation EXCEPT !.stage = "restored"]
                    ELSE NoIsolation
    /\ UNCHANGED sectionSince

\* createSectionPlane(id) with the default plane type and position
CreateSectionPlane ==
    \E id \in Ids :
        /\ ClipBounded(createSectionPlane(State, id, DefaultPlaneType, DefaultPosition))
        /\ Call_createSectionPlane(id, DefaultPlaneType, DefaultPosition)
        /\ lastOp' = "createSectionPlane"
        /\ sectionSince' = IF HasPart(id) THEN id ELSE sectionSince
        /\ IsolationAfterOther

RemoveSectionPlane ==
    \E id \in Ids :
        /\ Call_removeSectionPlane(id)
        /\ lastOp' = "removeSectionPlane"
        /\ sectionSince' = IF id = sectionSince THEN Null ELSE sectionSince
        /\ IsolationAfterOther

\* createSectionPlane(id, planeType, position) with every plane type
CreateSectionPlaneAt ==
    \E id \in Ids, planeType \in PlaneTypes, position \in SliderEnds :
        /\ ClipBounded(createSectionPlane(State, id, planeType, position))
        /\ Call_createSectionPlane(id, planeType, position)
        /\ lastOp' = "createSectionPlane"
        /\ sectionSince' = IF HasPart(id) THEN id ELSE sectionSince
        /\ IsolationAfterOther

UpdateSectionPlane ==
    \E id \in Ids, position \in SliderEnds :
        Call_updateSectionPlane(id, position) /\ Plain("updateSectionPlane")

\* one frame of animate()
Update == Call_update /\ Plain("update")

HandleClick ==
    \E meshHit \in PartIds \cup {Null}, labelHit \in PartIds \cup {Null} :
        Commit(handleClick(State, meshHit, labelHit)) /\ Plain("handleClick")

ToggleGhostMode == Commit(toggleGhostMode(State)) /\ Plain("toggleGhostMode")

HandleMouseMove ==
    \E meshHit \in PartIds \cup {Null}, labelHit \in PartIds \cup {Null} :
        Commit(handleMouseMove(State, meshHit, labelHit)) /\ Plain("handleMouseMove")

\* ---------------------------------------------------------- specifications
\* Spec: the registry operations on visibility and on the section state,
\* called with registered and unregistered ids, interleaved with the frame
\* tick.
Next ==
    \/ HidePart
    \/ ShowPart
    \/ TogglePartVisibility
    \/ IsolatePart
    \/ ShowAllParts
    \/ CreateSectionPlane
    \/ RemoveSectionPlane
    \/ Update

Spec == Init /\ [][Next]_vars

\* the states right after createSectionPlane(a), called on the loaded model
\* with a either unselected or selected
SectionedStates ==
    {createSectionPlane(InitState, a, DefaultPlaneType, DefaultPosition) : a \in PartIds}
        \cup {createSectionPlane(selectPart(InitState, a), a, DefaultPlaneType, DefaultPosition) :
                 a \in PartIds}

\* SpecSectioning: section mode has been entered; selection and visibility
\* operations are interleaved with the frame tick.
InitSectioning ==
    \E s \in SectionedStates :
        /\ IsState(s)
        /\ AnalyzerConstructed
        /\ AppLoaded
        /\ lastOp = "createSectionPlane"
        /\ sectionSince = s.sectionedPartId
        /\ isolation = NoIsolation

NextSectioning ==
    \/ SelectPart
    \/ DeselectAllParts
    \/ HidePart
    \/ ShowPart
    \/ TogglePartVisibility
    \/ IsolatePart
    \/ ShowAllParts
    \/ Update

SpecSectioning == InitSectioning /\ [][NextSectioning]_vars

\* SpecSelection: selection, highlighting, canvas clicks and ghost mode,
\* started from the loaded model or from a selected part being sectioned.
InitSelection ==
    \E s \in {InitState} \cup
             {createSectionPlane(selectPart(InitState, a), a, DefaultPlaneType, DefaultPosition) :
                 a \in PartIds} :
        /\ IsState(s)
        /\ AnalyzerConstructed
        /\ AppLoaded
        /\ lastOp = IF s.sectionedPartId = Null THEN "load" ELSE "createSectionPlane"
        /\ sectionSince = s.sectionedPartId
        /\ isolation = NoIsolation

NextSelection ==
    \/ SelectPart
    \/ DeselectAllParts
    \/ HighlightPart
    \/ RemoveHighlight
    \/ HandleClick
    \/ ToggleGhostMode

SpecSelection == InitSelection /\ [][NextSelection]_vars

\* the click listener of a parts-list item
partItemClick(s, partId) == selectPart(s, partId)

\* the click listener of the isolatePart button
isolateButtonClick(s) ==
    IF getSelectedPart(s) \in PartIds THEN isolatePart(s, getSelectedPart(s)) ELSE s

\* the click listener of the createSection button, with the values of the
\* sectionPlaneType select and of the sectionPosition slider
createSectionClick(s, planeType, position) ==
    IF getSelectedPart(s) \in PartIds
    THEN createSectionPlane(s, getSelectedPart(s), planeType, position)
    ELSE s

\* the click listeners of the removeSection and resetSection buttons
removeSectionClick(s) ==
    IF getSelectedPart(s) \in PartIds THEN removeSectionPlane(s, getSelectedPart(s)) ELSE s

\* the input listener of the sectionPosition slider
sectionPositionInput(s, value) ==
    IF getSelectedPart(s) \in PartIds /\ hasSectionPlane(s, getSelectedPart(s))
    THEN updateSectionPlane(s, getSelectedPart(s), value)
    ELSE s

PartItemClick ==
    \E id \in partsList : Commit(partItemClick(State, id)) /\ Plain("partItemClick")

IsolateButtonClick ==
    /\ Commit(isolateButtonClick(State))
    /\ lastOp' = "isolateButtonClick"
    /\ isolation' = IF getSelectedPart(State) \in PartIds
                    THEN [stage |-> "justIsolated", id |-> getSelectedPart(State),
                          hiddenBefore |-> isHidden]
                    ELSE isolation
    /\ UNCHANGED sectionSince

\* the sectionPlaneType select is left at its first option
CreateSectionClick ==
    \E position \in Positions :
        /\ ClipBounded(createSectionClick(State, DefaultPlaneType, position))
        /\ Commit(createSectionClick(State, DefaultPlaneType, position))
        /\ lastOp' = "createSectionClick"
        /\ sectionSince' = IF getSelectedPart(State) \in PartIds
                           THEN getSelectedPart(State)
                           ELSE sectionSince
        /\ IsolationAfterOther

RemoveSectionClick ==
    /\ Commit(removeSectionClick(State))
    /\ lastOp' = "removeSectionClick"
    /\ sectionSince' = IF getSelectedPart(State) = sectionSince THEN Null ELSE sectionSince
    /\ IsolationAfterOther

SectionPositionInput ==
    \E value \in Positions :
        Commit(sectionPositionInput(State, value)) /\ Plain("sectionPositionInput")

\* SpecEvents: the events a user can trigger on the loaded page: a click on
\* the canvas, on a parts-list item, on the isolate, show-all, create-section
\* and remove-section buttons, on the ghost-mode button, and a move of the
\* section slider.
NextEvents ==
    \/ HandleClick
    \/ PartItemClick
    \/ IsolateButtonClick
    \/ ShowAllParts
    \/ CreateSectionClick
    \/ RemoveSectionClick
    \/ SectionPositionInput
    \/ ToggleGhostMode

SpecEvents == Init /\ [][NextEvents]_vars

\* SpecPointer: the pointer events of the canvas and of the parts list, and
\* the ghost-mode button, started from the loaded model or from a selected
\* part being sectioned.
NextPointer ==
    \/ HandleClick
    \/ HandleMouseMove
    \/ PartItemClick
    \/ ToggleGhostMode

SpecPointer == InitSelection /\ [][NextPointer]_vars

\* SpecSelecting: parts are selected and deselected by calls and by clicks on
\* the canvas and on the parts list, in and out of ghost mode.
NextSelecting ==
    \/ SelectPart
    \/ DeselectAllParts
    \/ HandleClick
    \/ PartItemClick
    \/ ToggleGhostMode

SpecSelecting == InitSelection /\ [][NextSelecting]_vars

\* SpecSectionSelect: sections are created and removed while the selection
\* changes.
NextSectionSelect ==
    \/ SelectPart
    \/ DeselectAllParts
    \/ CreateSectionPlane
    \/ RemoveSectionPlane

SpecSectionSelect == Init /\ [][NextSectionSelect]_vars

\* SpecSectionPlane: section planes of every type are created, moved and
\* removed, on the loaded model or with one part selected.
InitSectionPlane ==
    \E s \in {InitState} \cup {selectPart(InitState, a) : a \in PartIds} :
        /\ IsState(s)
        /\ AnalyzerConstructed
        /\ AppLoaded
        /\ lastOp = IF s.selectedPart = Null THEN "load" ELSE "selectPart"
        /\ sectionSince = Null
        /\ isolation = NoIsolation

NextSectionPlane ==
    \/ CreateSectionPlaneAt
    \/ UpdateSectionPlane
    \/ RemoveSectionPlane

SpecSectionPlane == InitSectionPlane /\ [][NextSectionPlane]_vars

\* ------------------------------------------------ the session's actions
\* the OBJ text that the server returns for PipeAssembly.obj
ModelText == <<OLine(NameA), V000, V111, F121, GLine(NameB), V000, V111, F343>>

\* the names of the meshes OBJLoader builds from it: one for each part of the
\* registry, without a name from the third on
ModelMeshes ==
    [k \in 1..NumParts |-> IF k = 1 THEN NameA ELSE IF k = 2 THEN NameB ELSE <<>>]

\* other files: blocks that are kept (a solid) or rejected (a flat part)
LoadBlocks ==
    {<<h>> \o b : h \in {OLine(NameA), OLine(NameB)},
                  b \in {<<V000, V110, F121>>, <<V000, V111, F121>>}}

RECURSIVE LoadTextsOf(_)
LoadTextsOf(n) ==
    IF n = 0
    THEN {<<>>}
    ELSE LET shorter == LoadTextsOf(n - 1)
         IN shorter \cup {text \o b : text \in shorter, b \in LoadBlocks}

LoadTexts == LoadTextsOf(MaxObjects)

\* the lists of mesh names of the objects loaded
MeshLists == UNION {[1..n -> {NameA, NameB, <<>>}] : n \in 0..MaxMeshes}

\* the page has been set up and fetch('PipeAssembly.obj') is under way; the
\* registry variables show the model that onLoad will register
InitSession ==
    /\ IsState(InitState)
    /\ AnalyzerConstructed
    /\ lastOp = "fetch"
    /\ sectionSince = Null
    /\ isolation = NoIsolation
    /\ loadPc = "fetching"
    /\ fetchResponse = "pending"
    /\ status = "loading"
    /\ partsRegistered = FALSE
    /\ addPartCalls = <<>>
    /\ animating = FALSE
    /\ scanPc = "idle"
    /\ scanIndex = 0
    /\ probeFate \in [{partNames[k] : k \in 1..NumParts} -> Fates]
    /\ videoSequences = {}
    /\ videoTimers = <<>>
    /\ playButtonDisabled = TRUE
    /\ currentVideo = Null
    /\ PageSetUp

\* fetch('PipeAssembly.obj') settles: the first then-handler throws on a
\* response that is not OK, and the catch handler shows the error
FetchSettles ==
    /\ loadPc = "fetching"
    /\ \E response \in {"ok", "notOk", "networkError"} :
          /\ fetchResponse' = response
          /\ IF response # "networkError" /\ responseOk(response)
             THEN loadPc' = "analyzing" /\ UNCHANGED status
             ELSE loadPc' = "failed" /\ status' = "error"
    /\ UNCHANGED <<settingsVars, cameraFit, touchVars, addPartCalls>>
    /\ Plain("fetch")
    /\ UNCHANGED <<progVars, analyzerVars, partsRegistered, animating, scanPc, scanIndex,
                   probeFate, videoSequences, videoTimers, playButtonDisabled, currentVideo>>

\* the second then-handler: analyzeOBJ(objContent), then loader.load(...)
AnalyzeAndLoadText(text) ==
    /\ loadPc = "analyzing"
    /\ LET r == analyzeOBJ(Analyzer, text)
       IN /\ parts' = r.analyzer.parts
          /\ currentPart' = r.analyzer.currentPart
          /\ result' = r.returned
    /\ objContent' = text
    /\ lineNumber' = Len(text)
    /\ pc' = "done"
    /\ calls' = calls + 1
    /\ loadPc' = "loading"
    /\ UNCHANGED <<settingsVars, cameraFit, touchVars, addPartCalls>>
    /\ Plain("analyzeOBJ")
    /\ UNCHANGED <<progVars, openedCount, typeName, typeResult, fetchResponse, status,
                   partsRegistered, animating, scanPc, scanIndex, probeFate, videoSequences,
                   videoTimers, playButtonDisabled, currentVideo>>

AnalyzeAndLoad == AnalyzeAndLoadText(ModelText)

\* OBJLoader calls onLoad: every mesh is registered with addPart,
\* loadVideoSequences() runs up to its first await (the probe of the first
\* name) and animate() runs its first frame; or it calls onError
LoaderSettlesWith(meshes) ==
    /\ loadPc = "loading"
    /\ \/ /\ loadPc' = "loaded"
          /\ status' = "loaded"
          /\ partsRegistered' = TRUE
          /\ addPartCalls' = traverse(result, meshes, 1, <<>>)
          /\ scanPc' = IF Len(partNames) > 0 THEN "awaiting" ELSE "done"
          /\ scanIndex' = IF Len(partNames) > 0 THEN 1 ELSE 0
          /\ animating' = TRUE
          /\ CommitState(update(State))
       \/ /\ loadPc' = "failed"
          /\ status' = "error"
          /\ UNCHANGED <<progVars, analyzerVars, partsRegistered, addPartCalls, scanPc,
                         scanIndex, animating>>
    /\ UNCHANGED <<settingsVars, cameraFit, touchVars>>
    /\ Plain("load")
    /\ UNCHANGED <<fetchResponse, probeFate, videoSequences, videoTimers, playButtonDisabled,
                   currentVideo>>

LoaderSettles == LoaderSettlesWith(ModelMeshes)

\* the probe awaited by scanResourcesFolder settles: an OK response records
\* the name, any other response and a network error record nothing; the loop
\* then issues the probe of the next name, or ends and updates the video
\* controls of the selected part
ProbeSettles ==
    /\ scanPc = "awaiting"
    /\ probeFate[partNames[scanIndex]] # "never"
    /\ LET name == partNames[scanIndex]
           v == [Video EXCEPT !.videoSequences =
                    IF probeFate[name] = "ok" THEN @ \cup {name} ELSE @]
       IN IF scanIndex < Len(partNames)
          THEN /\ scanIndex' = scanIndex + 1
               /\ UNCHANGED scanPc
               /\ CommitVideo(v)
          ELSE /\ scanPc' = "done"
               /\ UNCHANGED scanIndex
               /\ CommitVideo(IF selectedPart # Null
                              THEN updateVideoControls(v, partsRegistered, selectedPart)
                              ELSE v)
    /\ UNCHANGED <<settingsVars, cameraFit, touchVars, addPartCalls>>
    /\ Plain("probe")
    /\ UNCHANGED <<progVars, analyzerVars, loadPc, fetchResponse, status, partsRegistered,
                   animating, probeFate, videoTimers>>

\* a part of the loaded model is selected; selectPart sets a timer of 100 ms
\* for updateVideoControls(partId)
SelectPartTimer ==
    /\ partsRegistered
    /\ Len(videoTimers) < MaxTimers
    /\ \E id \in PartIds :
          /\ CommitState(selectPart(State, id))
          /\ videoTimers' = Append(videoTimers, id)
    /\ UNCHANGED <<settingsVars, cameraFit, touchVars, addPartCalls>>
    /\ Plain("selectPart")
    /\ UNCHANGED <<loadPc, fetchResponse, status, partsRegistered, animating, scanPc, scanIndex,
                   probeFate, videoSequences, playButtonDisabled, currentVideo>>

\* the oldest timer set by selectPart fires
VideoControlsTimer ==
    /\ videoTimers # <<>>
    /\ CommitVideo(updateVideoControls(Video, partsRegistered, Head(videoTimers)))
    /\ videoTimers' = Tail(videoTimers)
    /\ UNCHANGED <<settingsVars, cameraFit, touchVars, addPartCalls>>
    /\ Plain("updateVideoControls")
    /\ UNCHANGED <<progVars, analyzerVars, loadPc, fetchResponse, status, partsRegistered,
                   animating, scanPc, scanIndex, probeFate>>

PlayVideo ==
    /\ \E id \in Ids : CommitVideo(playVideo(Video, partsRegistered, id))
    /\ UNCHANGED <<settingsVars, cameraFit, touchVars, addPartCalls>>
    /\ Plain("playVideo")
    /\ UNCHANGED <<progVars, analyzerVars, loadPc, fetchResponse, status, partsRegistered,
                   animating, scanPc, scanIndex, probeFate, videoTimers>>

\* the stopVideo and videoClose buttons and the Escape key
StopVideo ==
    /\ CommitVideo(stopVideo(Video))
    /\ UNCHANGED <<settingsVars, cameraFit, touchVars, addPartCalls>>
    /\ Plain("stopVideo")
    /\ UNCHANGED <<progVars, analyzerVars, loadPc, fetchResponse, status, partsRegistered,
                   animating, scanPc, scanIndex, probeFate, videoTimers>>

\* SpecSession: the model is fetched, analyzed and loaded, the videos are
\* probed, parts are selected and videos played and stopped.
NextSession ==
    \/ FetchSettles
    \/ AnalyzeAndLoad
    \/ LoaderSettles
    \/ ProbeSettles
    \/ SelectPartTimer
    \/ VideoControlsTimer
    \/ PlayVideo
    \/ StopVideo

SpecSession == InitSession /\ [][NextSession]_vars

\* SpecSessionFair: every probe that the server answers at all is answered in
\* the end, and the loop of scanResourcesFolder then goes on; a probe whose
\* fate is "never" stays pending.
SpecSessionFair == SpecSession /\ WF_vars(ProbeSettles)

\* SpecLoad: the page loads a file of any text into an object of any meshes;
\* the registry variables keep showing the parts of ModelText.
InitLoad ==
    /\ InitSession
    /\ \A name \in DOMAIN probeFate : probeFate[name] = "notFound"

AnalyzeAndLoadAny == \E text \in LoadTexts : AnalyzeAndLoadText(text)

LoaderSettlesAny == \E meshes \in MeshLists : LoaderSettlesWith(meshes)

NextLoad ==
    \/ FetchSettles
    \/ AnalyzeAndLoadAny
    \/ LoaderSettlesAny

SpecLoad == InitLoad /\ [][NextLoad]_vars

\* ------------------------------------------------- the settings' actions
\* history kept by a listener of the settings controls
SettingsStep(op) ==
    /\ Plain(op)
    /\ UNCHANGED <<analyzerVars, sessionVars, touchVars>>

UpAxisChange ==
    /\ \E value \in UpAxes : CommitConfig(upAxisChange(Config, value))
    /\ cameraFit' = IF loadPc = "loaded" THEN TRUE ELSE cameraFit
    /\ SettingsStep("upAxisChange")
    /\ UNCHANGED progVars

MaterialColorInput ==
    /\ \E c \in Colors : CommitConfig(materialColorInput(Config, ColorInput(c)))
    /\ SettingsStep("materialColorInput")
    /\ CommitState(resetMaterials(State))
    /\ UNCHANGED cameraFit

GlossinessInput ==
    /\ \E r \in Roughnesses : CommitConfig(glossinessInput(Config, numberToString(r)))
    /\ SettingsStep("glossinessInput")
    /\ CommitState(resetMaterials(State))
    /\ UNCHANGED cameraFit

LightIntensityInput ==
    /\ \E i \in LightIntensities :
          CommitConfig(lightIntensityInput(Config, numberToString(i)))
    /\ SettingsStep("lightIntensityInput")
    /\ UNCHANGED <<progVars, cameraFit>>

ShadowQualityChange ==
    /\ \E q \in ShadowQualities :
          CommitConfig(shadowQualityChange(Config, numberToString(q)))
    /\ SettingsStep("shadowQualityChange")
    /\ UNCHANGED <<progVars, cameraFit>>

OrthographicToggle ==
    /\ CommitConfig(toggleCameraMode(Config, ~settings.orthographic))
    /\ cameraFit' = IF loadPc = "loaded" THEN TRUE ELSE cameraFit
    /\ SettingsStep("toggleCameraMode")
    /\ UNCHANGED progVars

ApplyScopeChange ==
    /\ \E value \in ApplyScopes : CommitConfig(applyScopeChange(Config, value))
    /\ SettingsStep("applyScopeChange")
    /\ UNCHANGED <<progVars, cameraFit>>

ResetSettings ==
    /\ CommitConfig(resetSettings(Config))
    /\ cameraFit' = IF loadPc = "loaded" THEN TRUE ELSE cameraFit
    /\ SettingsStep("resetSettings")
    /\ CommitState(resetMaterials(State))

\* the page is opened again: the script starts from its initial values, runs
\* loadSettings() on what localStorage holds, and loads the model
Reload ==
    /\ CommitConfig(loadSettings([settings |-> DefaultSettings,
                                  localStorage |-> localStorage]))
    /\ cameraFit' = TRUE
    /\ SettingsStep("reload")
    /\ CommitState(InitState)

\* SpecSettings: the settings controls are used and the page is opened again,
\* with the model loaded.
NextSettings ==
    \/ UpAxisChange
    \/ MaterialColorInput
    \/ GlossinessInput
    \/ LightIntensityInput
    \/ ShadowQualityChange
    \/ OrthographicToggle
    \/ ApplyScopeChange
    \/ ResetSettings
    \/ Reload

SpecSettings == Init /\ [][NextSettings]_vars

\* --------------------------------------------------------- touch actions
\* a touchstart with one or two fingers, gap ms after the one before
TouchStart ==
    /\ tapCount < MaxTaps
    /\ \E gap \in Gaps, touches \in {1, 2} :
          LET currentTime == now + gap
              t == touchstart(Touch, touches, currentTime, loadPc = "loaded")
              rapid == touches = 1 /\ currentTime - lastTapAt < DoubleTapWindow
          IN /\ now' = currentTime
             /\ lastTouchTime' = t.lastTouchTime
             /\ touchCount' = t.touchCount
             /\ cameraFit' = t.cameraFit
             /\ lastTapAt' = IF touches = 1 THEN currentTime ELSE lastTapAt
             /\ runLength' = IF touches # 1 THEN runLength
                             ELSE IF rapid THEN runLength + 1 ELSE 1
             /\ runResets' = IF touches # 1 THEN runResets
                             ELSE (IF rapid THEN runResets ELSE 0) + (IF t.fitted THEN 1 ELSE 0)
    /\ tapCount' = tapCount + 1
    /\ Plain("touchstart")
    /\ UNCHANGED <<progVars, analyzerVars, sessionVars, settingsVars>>

\* the user turns the camera with OrbitControls
OrbitCamera ==
    /\ cameraFit
    /\ cameraFit' = FALSE
    /\ Plain("orbit")
    /\ UNCHANGED <<progVars, analyzerVars, sessionVars, settingsVars, touchVars>>

\* SpecTouch: touchstart events on the canvas of the loaded model, and the
\* camera being turned.
NextTouch ==
    \/ TouchStart
    \/ OrbitCamera

SpecTouch == Init /\ [][NextTouch]_vars

\* SpecAnalyzer: analyzeOBJ calls on one analyzer, line by line.
NextAnalyzer ==
    \/ AnalyzeOBJ
    \/ ProcessLine
    \/ ReturnParts

SpecAnalyzer == Init /\ [][NextAnalyzer]_vars

\* SpecLines: one analyzeOBJ call on a file that is revealed line by line;
\* objContent holds the lines read so far.
AnalyzeLines ==
    /\ pc = "idle"
    /\ objContent' = <<>>
    /\ parts' = resetFields(Analyzer).parts
    /\ currentPart' = resetFields(Analyzer).currentPart
    /\ pc' = "scan"
    /\ lineNumber' = 0
    /\ calls' = calls + 1
    /\ openedCount' = 0
    /\ UNCHANGED <<result, typeName, typeResult, registryVars>>

ReadLine ==
    /\ pc = "scan"
    /\ lineNumber < MaxLines
    /\ \E line \in FileLines :
          LET a == processLine(Analyzer, line, openedCount)
          IN /\ objContent' = Append(objContent, line)
             /\ parts' = a.parts
             /\ currentPart' = a.currentPart
             /\ openedCount' = IF opensPart(Analyzer, line) THEN openedCount + 1 ELSE openedCount
    /\ lineNumber' = lineNumber + 1
    /\ UNCHANGED <<pc, result, calls, typeName, typeResult, registryVars>>

EndOfLines == lineNumber > 0 /\ ReturnParts

NextLines ==
    \/ AnalyzeLines
    \/ ReadLine
    \/ EndOfLines

SpecLines == Init /\ [][NextLines]_vars

\* SpecTypes: detectPartType called once with a name.
InitTypes ==
    /\ IsState(InitState)
    /\ lastOp = "load"
    /\ sectionSince = Null
    /\ isolation = NoIsolation
    /\ parts = NewAnalyzer.parts
    /\ currentPart = NewAnalyzer.currentPart
    /\ objContent = <<>>
    /\ lineNumber = 0
    /\ pc = "idle"
    /\ result = <<>>
    /\ calls = 0
    /\ openedCount = 0
    /\ typeName \in TypeNames
    /\ typeResult = "none"
    /\ AppLoaded

NextTypes == DetectPartType

SpecTypes == InitTypes /\ [][NextTypes]_vars

\* ------------------------------------------------------------------ claims
OnlyVisible(vis, a) == \A p \in PartIds : vis[p] = (p = a)

\* C1: after createSectionPlane(A) succeeded, and until removeSectionPlane(A)
\* or a createSectionPlane of another part, after every update() tick the mesh
\* of A is visible and every other mesh is invisible, whatever other registry
\* operations (removeSectionPlane on other ids included) were interleaved.
C1_SectionInvariant ==
    [][(Call_update /\ sectionSince # Null) => OnlyVisible(meshVisible', sectionSince)]_vars

\* C2: a tick that runs while sectionedPartId = A leaves mesh A visible and
\* every other mesh invisible, whatever the visibility and selection
\* operations set before it; and none of those operations changes
\* sectionedPartId.
C2_VisibilityOrSelectionCall ==
    \/ Call_showAllParts
    \/ Call_deselectAllParts
    \/ \E id \in Ids :
          \/ Call_hidePart(id)
          \/ Call_showPart(id)
          \/ Call_togglePartVisibility(id)
          \/ Call_isolatePart(id)
          \/ Call_selectPart(id)

C2_SelfHealing ==
    [][/\ (Call_update /\ sectionedPartId # Null) => OnlyVisible(meshVisible', sectionedPartId)
       /\ sectionedPartId' # sectionedPartId => ~C2_VisibilityOrSelectionCall]_vars

\* a tick has just run in section mode and has overridden the flags: the
\* sectioned part is flagged hidden yet visible, another part is flagged shown
\* yet invisible
C2_Witness ==
    /\ lastOp = "update"
    /\ sectionedPartId \in PartIds
    /\ isHidden[sectionedPartId] /\ meshVisible[sectionedPartId]
    /\ \E p \in PartIds \ {sectionedPartId} : ~isHidden[p] /\ ~meshVisible[p]

\* C3: createSectionPlane(B) in state Sectioning(A), A # B, tears down A's
\* section first: afterwards only B is sectioned and visible, A has no section
\* plane, no clipping plane on its material, no cross-section object, no
\* cutting-plane visual, and no section-highlight material.
C3_OtherSectionTornDown ==
    [][\A a \in PartIds : \A b \in PartIds \ {a} :
          (/\ sectionedPartId = a
           /\ hasSectionPlane(State, a)
           /\ Call_createSectionPlane(b, DefaultPlaneType, DefaultPosition))
          => /\ sectionedPartId' = b
             /\ OnlyVisible(meshVisible', b)
             /\ DOMAIN sectionPlanes' = {b}
             /\ clippingPlanes'[material'[a]] = <<>>
             /\ a \notin crossSections'
             /\ a \notin cuttingPlaneVisuals'
             /\ material'[a] # highlight2Material]_vars

\* C4: removeSectionPlane(id) with an id other than the sectioned part, in
\* state Sectioning(A), leaves sectionedPartId = A and every mesh's visibility
\* unchanged.
C4_RemoveOtherIsNoOp ==
    [][\A id \in Ids :
          (sectionedPartId # Null /\ id # sectionedPartId /\ Call_removeSectionPlane(id))
          => (sectionedPartId' = sectionedPartId /\ meshVisible' = meshVisible)]_vars

\* C5: whenever no part is being sectioned, every mesh's visibility flag is
\* the negation of its part's isHidden flag.
C5_LockStep ==
    sectionedPartId = Null => \A p \in PartIds : meshVisible[p] = ~isHidden[p]

\* C6: isolatePart(A) for a registered A immediately followed by
\* showAllParts() leaves every part's isHidden flag as it was just before
\* isolatePart(A).
C6_RoundTrip ==
    (isolation.stage = "restored" /\ isolation.id \in PartIds)
        => isHidden = isolation.hiddenBefore

\* the round trip has run from a state in which A itself was hidden and some
\* other part was shown, so both loops had flags to change and to restore
C6_Witness ==
    /\ lastOp = "showAllParts"
    /\ isolation.stage = "restored"
    /\ isolation.id \in PartIds
    /\ isolation.hiddenBefore[isolation.id]
    /\ \E p \in PartIds \ {isolation.id} : ~isolation.hiddenBefore[p]

\* C7: showAllParts called when no isolatePart is outstanding (never called,
\* or already matched by a showAllParts) leaves every part shown.
C7_ShowAllWithoutIsolation ==
    [][(Call_showAllParts /\ isolation.stage \in {"none", "restored"})
          => \A p \in PartIds : ~isHidden'[p]]_vars

\* C8: selectPart(id) with an unregistered id is a no-op: selectedPart, the
\* selected and highlighted flags and the result of getSelectedPart() are
\* unchanged.
C8_SelectUnknownIsNoOp ==
    [][\A id \in Ids \ PartIds :
          Call_selectPart(id)
          => /\ selectedPart' = selectedPart
             /\ isSelected' = isSelected
             /\ isHighlighted' = isHighlighted
             /\ getSelectedPart(State)' = getSelectedPart(State)]_vars

\* C9: hidePart, showPart, togglePartVisibility, highlightPart,
\* removeHighlight, isolatePart, createSectionPlane, updateSectionPlane and
\* removeSectionPlane called with an unregistered id leave the whole registry
\* state unchanged.
C9_UnknownIdCall(id) ==
    \/ Call_hidePart(id)
    \/ Call_showPart(id)
    \/ Call_togglePartVisibility(id)
    \/ Call_highlightPart(id)
    \/ Call_removeHighlight(id)
    \/ Call_isolatePart(id)
    \/ \E planeType \in PlaneTypes, position \in Positions :
          Call_createSectionPlane(id, planeType, position)
    \/ \E position \in Positions : Call_updateSectionPlane(id, position)
    \/ Call_removeSectionPlane(id)

C9_UnknownIdIsNoOp ==
    [][\A id \in Ids \ PartIds : C9_UnknownIdCall(id) => UNCHANGED progVars]_vars

\* C10: selectPart(B) while a different registered part A is selected first
\* deselects A (not selected, not highlighted, the original material back on
\* its mesh) and then marks B selected and highlighted; afterwards
\* selectedPart = B.  The state between the two steps is the result of
\* deselectPart(A); once the call has returned, A's mesh still carries its
\* original material unless ghost mode has put the ghost material on it.
C10_SelectDeselectsPrevious ==
    [][\A a \in PartIds : \A b \in PartIds \ {a} :
          (selectedPart = a /\ Call_selectPart(b))
          => LET mid == deselectPart(State, a)
             IN /\ ~mid.isSelected[a]
                /\ ~mid.isHighlighted[a]
                /\ a \notin mid.highlightedParts
                /\ mid.material[a] \notin {highlightMaterial, highlight2Material}
                /\ isHighlighted[a] => mid.material[a] = originalMaterials(a)
                /\ ~mid.isSelected[b]
                /\ selectedPart' = b
                /\ isSelected'[b] /\ isHighlighted'[b]
                /\ ~isSelected'[a] /\ ~isHighlighted'[a]
                /\ (isHighlighted[a] /\ ~isGhostMode)
                      => material'[a] = originalMaterials(a)]_vars

\* selectPart has just moved the selection to one part from another part
\* that was highlighted: that part carries its original material again
C10_Witness ==
    /\ lastOp = "selectPart"
    /\ selectedPart \in PartIds
    /\ isSelected[selectedPart] /\ isHighlighted[selectedPart]
    /\ \E a \in PartIds \ {selectedPart} :
          /\ material[a] = originalMaterials(a)
          /\ ~isSelected[a] /\ ~isHighlighted[a]

\* C11: in section mode a click on the canvas (on a part, on a label or on
\* empty space) changes nothing: selection, highlight and hidden flags, mesh
\* visibility and section state all stay as they were.
C11_ClickSuppressed ==
    [][(sectionedPartId # Null /\ lastOp' = "handleClick") => UNCHANGED progVars]_vars

\* a canvas click has been handled in section mode while a part was selected
C11_Witness ==
    /\ lastOp = "handleClick"
    /\ sectionedPartId \in PartIds
    /\ selectedPart \in PartIds

\* C12: over every user-triggerable event, a step that starts and ends in
\* section mode leaves selectedPart unchanged.
C12_SelectionLockedWhileSectioning ==
    [][(sectionedPartId # Null /\ sectionedPartId' # Null) => selectedPart' = selectedPart]_vars

\* C20: after isolatePart(A) for a registered A, A is shown (not hidden, and
\* its mesh visible), every other part is hidden, and the isolation snapshot
\* holds each part's isHidden value from before the call.
C20_IsolatePost ==
    [][\A a \in PartIds :
          Call_isolatePart(a)
          => /\ ~isHidden'[a]
             /\ meshVisible'[a]
             /\ \A p \in PartIds \ {a} : isHidden'[p] /\ ~meshVisible'[p]
             /\ preIsolationState'.defined
             /\ preIsolationState'.wasHidden = isHidden]_vars

\* isolatePart has just run on a part that was hidden before while another
\* part was shown before
C20_Witness ==
    /\ lastOp = "isolatePart"
    /\ isolation.stage = "justIsolated"
    /\ isolation.id \in PartIds
    /\ isolation.hiddenBefore[isolation.id]
    /\ ~isHidden[isolation.id]
    /\ \E p \in PartIds \ {isolation.id} : ~isolation.hiddenBefore[p] /\ isHidden[p]

\* the step is one turn of the loop of analyzeOBJ, on the line `line`
LoopStep(line) ==
    /\ pc = "scan"
    /\ lineNumber < Len(objContent)
    /\ lineNumber' = lineNumber + 1
    /\ line = objContent[lineNumber + 1]

\* the step is the end of the loop and the return of analyzeOBJ
ReturnStep == pc = "scan" /\ pc' = "done"

\* C13: the output is, in opening order, exactly the opened parts that have
\* at least one vertex, at least one face and strictly positive size on x, y
\* and z; the part still open when the input ends is finalized under the
\* same rule.  Stated step by step: a step that closes the open part (an o
\* or g line that opens the next one, or the end of the input) appends it to
\* the output if and only if it satisfies the rule, no other step changes
\* the output, and every part in the output satisfies the rule.
C13_Retained(part) ==
    /\ Len(part.vertices) >= 1
    /\ Len(part.faces) >= 1
    /\ \E i, j \in 1..Len(part.vertices) : part.vertices[i].x < part.vertices[j].x
    /\ \E i, j \in 1..Len(part.vertices) : part.vertices[i].y < part.vertices[j].y
    /\ \E i, j \in 1..Len(part.vertices) : part.vertices[i].z < part.vertices[j].z

C13_Closes ==
    /\ ~currentPart.isNull
    /\ \/ ReturnStep
       \/ \E line \in Headers : LoopStep(line) /\ opensPart(Analyzer, line)

C13_SamePart(p, q) ==
    /\ p.name = q.name
    /\ p.partNumber = q.partNumber
    /\ p.vertices = q.vertices
    /\ p.faces = q.faces

C13_OutputIsValidParts ==
    [][(pc = "scan")
         => /\ (C13_Closes /\ C13_Retained(currentPart))
                  => /\ Len(parts') = Len(parts) + 1
                     /\ SubSeq(parts', 1, Len(parts)) = parts
                     /\ C13_SamePart(parts'[Len(parts')], currentPart)
            /\ ~(C13_Closes /\ C13_Retained(currentPart)) => parts' = parts
            /\ \A i \in 1..Len(parts') : C13_Retained(parts'[i])
            /\ ReturnStep => result' = parts']_vars

\* a file of two parts has been analysed: one was kept, one was dropped
C13_Witness ==
    /\ pc = "done"
    /\ openedCount = 2
    /\ Len(result) = 1

\* C14: the k-th part opened by an o or g line of a file gets the number
\* P-00k, whether or not parts opened before it were rejected.
C14_NumberedAtOpening ==
    [][\A line \in Headers :
          (LoopStep(line) /\ opensPart(Analyzer, line))
          => currentPart'.partNumber = partNumberOf(openedCount + 1)]_vars

\* C15: in the output for a well-formed file (no malformed line, every face
\* index between 1 and the number of v lines read so far in the file), every
\* face-vertex index of a part is at least 0 and less than the number of
\* vertices of that part.
C15_VLinesBefore(text, k) == Cardinality({i \in 1..(k - 1) : text[i].command = "v"})

C15_WellFormed(text) ==
    \A k \in 1..Len(text) :
        /\ ~Malformed(text[k])
        /\ text[k].command = "f"
              => \A i \in 1..Len(text[k].args) :
                    /\ text[k].args[i].numeric
                    /\ text[k].args[i].value >= 1
                    /\ text[k].args[i].value <= C15_VLinesBefore(text, k)

C15_FaceIndicesInRange ==
    (pc = "done" /\ C15_WellFormed(objContent))
        => \A p \in 1..Len(result) :
              \A f \in 1..Len(result[p].faces) :
                 \A i \in 1..Len(result[p].faces[f]) :
                    /\ result[p].faces[f][i].vertexIndex >= 0
                    /\ result[p].faces[f][i].vertexIndex < Len(result[p].vertices)

\* the sequence without its k-th element
RemoveAt(seq, k) == SubSeq(seq, 1, k - 1) \o SubSeq(seq, k + 1, Len(seq))

\* C16: a malformed line (a v line with a non-numeric coordinate, an f line
\* with a token whose vertex index is missing or less than 1) appends no
\* vertex and no face, the parse goes on, and the output is the output for
\* the same text without that line.
C16_MalformedLineOnly ==
    [][/\ \A line \in {VBad, FBad, FMissing} :
             LoopStep(line) => (parts' = parts /\ currentPart' = currentPart /\ pc' = "scan")
       /\ ReturnStep
             => \A k \in 1..Len(objContent) :
                   Malformed(objContent[k])
                   => result' = analyzeOBJ(NewAnalyzer, RemoveAt(objContent, k)).returned]_vars

\* a file with malformed v and f lines has been analysed and a part of it
\* was kept
C16_Witness ==
    /\ pc = "done"
    /\ result # <<>>
    /\ \E k \in 1..Len(objContent) : objContent[k] = VBad
    /\ \E k \in 1..Len(objContent) : objContent[k] = FBad

\* C17 as stated: an o line always finalizes the open part and starts a new
\* one; a g line with the open part's name starts no part and leaves the
\* open part intact; a g line with any different name does what an o line
\* with that name does; a g line with no part open starts one.
C17_OLine(name) ==
    /\ ~currentPart'.isNull
    /\ currentPart'.vertices = <<>>
    /\ currentPart'.faces = <<>>
    /\ name # <<>> => currentPart'.name = name
    /\ openedCount' = openedCount + 1

C17_AsOLine(name) ==
    /\ parts' = processLine(Analyzer, OLine(name), openedCount).parts
    /\ currentPart' = processLine(Analyzer, OLine(name), openedCount).currentPart
    /\ C17_OLine(name)

C17_PartBoundaries ==
    [][\A line \in Headers :
          LoopStep(line)
          => /\ line.command = "o" => C17_OLine(line.name)
             /\ (line.command = "g" /\ ~currentPart.isNull /\ line.name = currentPart.name)
                   => UNCHANGED <<parts, currentPart, openedCount>>
             /\ (line.command = "g" /\ ~currentPart.isNull /\ line.name # currentPart.name)
                   => C17_AsOLine(line.name)
             /\ (line.command = "g" /\ currentPart.isNull) => C17_AsOLine(line.name)]_vars

\* C17 as amended: a g line with a different name that is not empty does what
\* an o line does; a g line with no name, read while a part is open, starts
\* no part and leaves the open part intact.
C17_PartBoundariesNamed ==
    [][\A line \in Headers :
          LoopStep(line)
          => /\ line.command = "o" => C17_OLine(line.name)
             /\ (line.command = "g" /\ ~currentPart.isNull /\ line.name = currentPart.name)
                   => UNCHANGED <<parts, currentPart, openedCount>>
             /\ (line.command = "g" /\ ~currentPart.isNull /\ line.name = <<>>)
                   => UNCHANGED <<parts, currentPart, openedCount>>
             /\ (line.command = "g" /\ ~currentPart.isNull
                    /\ line.name # <<>> /\ line.name # currentPart.name)
                   => C17_AsOLine(line.name)
             /\ (line.command = "g" /\ currentPart.isNull) => C17_AsOLine(line.name)]_vars

\* a g line with the name of the open part has just been read and the part
\* still holds the vertices read before it
C17_Witness ==
    /\ pc = "scan"
    /\ lineNumber >= 1
    /\ objContent[lineNumber] = GLine(NameA)
    /\ ~currentPart.isNull
    /\ currentPart.name = NameA
    /\ Len(currentPart.vertices) >= 1

\* C18: whatever analyzeOBJ calls were made on the analyzer before,
\* analyzeOBJ(t) returns what a new analyzer returns for t.
C18_PureFunctionOfText ==
    pc = "done" => result = analyzeOBJ(NewAnalyzer, objContent).returned

\* a second call on the same analyzer has returned parts
C18_Witness ==
    /\ pc = "done"
    /\ calls = 2
    /\ Len(result) >= 1

\* C19: the type is that of the first entry of the ordered keyword table
\* with a keyword that is a case-insensitive substring of the name,
\* Component for a non-empty name that matches none, Unknown for the empty
\* name.
C19_KeywordTable ==
    <<[keywords |-> {<<"p", "i", "p", "e">>, <<"t", "u", "b", "e">>}, type |-> "Pipe"],
      [keywords |-> {<<"f", "l", "a", "n", "g", "e">>}, type |-> "Flange"],
      [keywords |-> {<<"e", "l", "b", "o", "w">>, <<"b", "e", "n", "d">>}, type |-> "Elbow"],
      [keywords |-> {<<"t", "e", "e">>, <<"t", "-", "j", "o", "i", "n", "t">>}, type |-> "Tee"],
      [keywords |-> {<<"v", "a", "l", "v", "e">>}, type |-> "Valve"],
      [keywords |-> {<<"f", "i", "t", "t", "i", "n", "g">>}, type |-> "Fitting"],
      [keywords |-> {<<"s", "u", "p", "p", "o", "r", "t">>, <<"b", "r", "a", "c", "k", "e", "t">>}, type |-> "Support"],
      [keywords |-> {<<"g", "a", "s", "k", "e", "t">>, <<"s", "e", "a", "l">>}, type |-> "Gasket"],
      [keywords |-> {<<"b", "o", "l", "t">>, <<"s", "c", "r", "e", "w">>}, type |-> "Fastener"],
      [keywords |-> {<<"n", "u", "t">>}, type |-> "Nut"]>>

C19_SameLetter(c, d) == toLowerCase(<<c>>) = toLowerCase(<<d>>)

C19_Occurs(keyword, name) ==
    \E i \in 0..(Len(name) - Len(keyword)) :
        \A j \in 1..Len(keyword) : C19_SameLetter(name[i + j], keyword[j])

C19_EntryMatches(k, name) ==
    \E keyword \in C19_KeywordTable[k].keywords : C19_Occurs(keyword, name)

C19_TypeOf(name) ==
    IF name = <<>>
    THEN "Unknown"
    ELSE IF \E k \in 1..Len(C19_KeywordTable) : C19_EntryMatches(k, name)
    THEN C19_KeywordTable[Least({k \in 1..Len(C19_KeywordTable) : C19_EntryMatches(k, name)})].type
    ELSE "Component"

C19_FirstKeywordWins ==
    typeResult # "none" => typeResult = C19_TypeOf(typeName)

\* the type of a name that holds 'Bend' and then 'pipe' has been found
C19_Witness ==
    /\ typeName = <<"B", "e", "n", "d", "p", "i", "p", "e">>
    /\ typeResult = "Pipe"

\* C21: outside section mode a canvas click selects the part of the mesh
\* hit; a label hit counts only when no mesh is hit, so a mesh wins over the
\* label of another part; a click that hits neither deselects all parts:
\* selectedPart = null and no part is selected or highlighted.
C21_Selected(p) ==
    /\ selectedPart' = p
    /\ isSelected'[p]
    /\ isHighlighted'[p]
    /\ \A q \in PartIds \ {p} : ~isSelected'[q] /\ ~isHighlighted'[q]

C21_ClickSelects ==
    [][\A meshHit \in PartIds \cup {Null} : \A labelHit \in PartIds \cup {Null} :
          (/\ sectionedPartId = Null
           /\ lastOp' = "handleClick"
           /\ Commit(handleClick(State, meshHit, labelHit)))
          => /\ meshHit # Null => C21_Selected(meshHit)
             /\ (meshHit = Null /\ labelHit # Null) => C21_Selected(labelHit)
             /\ (meshHit = Null /\ labelHit = Null)
                   => /\ selectedPart' = Null
                      /\ \A q \in PartIds : ~isSelected'[q] /\ ~isHighlighted'[q]]_vars

\* a click has just selected a part outside section mode
C21_Witness ==
    /\ lastOp = "handleClick"
    /\ sectionedPartId = Null
    /\ selectedPart \in PartIds
    /\ isSelected[selectedPart]
    /\ isHighlighted[selectedPart]

\* C22: a mouse move changes the cursor and nothing else: selection,
\* highlight and hidden flags, mesh visibility, isolation snapshot and section
\* state are as before, in section mode too.
C22_MouseMoveKeepsState ==
    [][lastOp' = "handleMouseMove"
          => UNCHANGED <<isSelected, isHighlighted, isHidden, meshVisible, labelVisible,
                         material, glow, clippingPlanes, selectedPart, visibleParts,
                         highlightedParts, sectionPlanes, crossSections, cuttingPlaneVisuals,
                         sectionedPartId, preIsolationState, isGhostMode, infoOverlay,
                         partsList>>]_vars

\* the pointer has just moved over a part in section mode
C22_Witness ==
    /\ lastOp = "handleMouseMove"
    /\ cursor = "pointer"
    /\ sectionedPartId \in PartIds

\* C23: createSectionPlane(id) for a registered id replaces any previous
\* section for id: after the call the state is Sectioning(id), sectionPlanes has
\* an entry for id, the material of id's mesh carries exactly one clipping
\* plane, and the cross-section object and the cutting-plane visual of id are
\* in the scene.
C23_OneSection(id) ==
    /\ sectionedPartId' = id
    /\ id \in DOMAIN sectionPlanes'
    /\ Len(clippingPlanes'[material'[id]]) = 1
    /\ id \in crossSections'
    /\ id \in cuttingPlaneVisuals'

C23_SectionReplaced ==
    [][\A id \in PartIds :
          (/\ lastOp' = "createSectionPlane"
           /\ Call_createSectionPlane(id, DefaultPlaneType, DefaultPosition))
          => C23_OneSection(id)]_vars

\* C24: updateSectionPlane(id, position) changes only the position of id's
\* section plane: sectionedPartId, the plane types, the set of parts with a
\* section plane, mesh visibility and selection are as before, and so is
\* everything else; without a section plane for id nothing changes at all.
C24_UpdateMovesPlaneOnly ==
    [][\A id \in Ids : \A position \in SliderEnds :
          (lastOp' = "updateSectionPlane" /\ Call_updateSectionPlane(id, position))
          => /\ UNCHANGED <<isSelected, isHighlighted, isHidden, meshVisible, labelVisible,
                            material, glow, clippingPlanes, selectedPart, visibleParts,
                            highlightedParts, crossSections, cuttingPlaneVisuals,
                            sectionedPartId, preIsolationState, isGhostMode, infoOverlay,
                            partsList, cursor>>
             /\ DOMAIN sectionPlanes' = DOMAIN sectionPlanes
             /\ \A q \in DOMAIN sectionPlanes :
                    /\ sectionPlanes'[q].planeType = sectionPlanes[q].planeType
                    /\ q # id => sectionPlanes'[q] = sectionPlanes[q]
             /\ id \notin DOMAIN sectionPlanes => UNCHANGED progVars]_vars

\* a section plane has just been moved while another part is the sectioned one
C24_Witness ==
    /\ lastOp = "updateSectionPlane"
    /\ \E id \in DOMAIN sectionPlanes :
          /\ sectionPlanes[id].position # Origin
          /\ sectionedPartId \in PartIds \ {id}

\* C25: for plane type XY, XZ or YZ and a slider position p in [-1, 1] the
\* section plane is placed at the centre of the part's bounding box, displaced
\* by p times half the extent of the part along the cut axis (z for XY, y for
\* XZ, x for YZ) and by 0 along the other axes; so the plane stays inside the
\* part's bounding box, on its faces for p = -1 and p = 1.
C25_Axis(planeType) ==
    CASE planeType = "XY" -> "z"
      [] planeType = "XZ" -> "y"
      [] planeType = "YZ" -> "x"

C25_Placed(id, planeType, position, point) ==
    LET box == geometryBox(id)
    IN /\ \A c \in Axes :
              point[c] = 100 * (box.min[c] + box.max[c])
                           + IF c = C25_Axis(planeType)
                             THEN position * (box.max[c] - box.min[c])
                             ELSE 0
       /\ \A c \in Axes : 200 * box.min[c] <= point[c] /\ point[c] <= 200 * box.max[c]
       /\ position = -100 => point[C25_Axis(planeType)] = 200 * box.min[C25_Axis(planeType)]
       /\ position = 100 => point[C25_Axis(planeType)] = 200 * box.max[C25_Axis(planeType)]

C25_PlaneInBoundingBox ==
    [][\A id \in PartIds : \A position \in SliderEnds :
          /\ \A planeType \in PlaneTypes :
                (lastOp' = "createSectionPlane"
                    /\ Call_createSectionPlane(id, planeType, position))
                => C25_Placed(id, planeType, position, sectionPlanes'[id].position)
          /\ (/\ lastOp' = "updateSectionPlane"
              /\ id \in DOMAIN sectionPlanes
              /\ Call_updateSectionPlane(id, position))
             => C25_Placed(id, sectionPlanes[id].planeType, position,
                           sectionPlanes'[id].position)]_vars

\* C26: video discovery issues one probe per part name and the probes are
\* independent: whatever happens to one probe (it fails, is slow or never
\* completes), every other name is probed and a name the server answers with
\* OK is recorded.
C26_ProbesIndependent ==
    \A k \in 1..NumParts :
        (scanPc = "awaiting")
            ~> (/\ scanPc = "done" \/ scanIndex > k \/ (scanIndex = k /\ scanPc = "awaiting")
                /\ probeFate[partNames[k]] = "ok" => partNames[k] \in videoSequences)

\* C27: a video is started only for a registered part whose name is, letter
\* for letter, a name that was probed with an OK answer; playVideo for an
\* unknown id or for a part without video starts nothing and leaves the
\* current video as it is.
C27_VideoOnlyForProbedName ==
    [][/\ (currentVideo' # currentVideo /\ currentVideo' # Null)
          => /\ partsRegistered
             /\ currentVideo' \in PartIds
             /\ partName(currentVideo') \in videoSequences
             /\ probeFate[partName(currentVideo')] = "ok"
       /\ \A id \in Ids :
             (/\ lastOp' = "playVideo"
              /\ CommitVideo(playVideo(Video, partsRegistered, id))
              /\ (id \notin PartIds \/ ~partsRegistered
                     \/ (id \in PartIds /\ partName(id) \notin videoSequences)))
             => UNCHANGED currentVideo]_vars

\* the video of "Pipe" plays while "pipe" has none
C27_Witness ==
    /\ lastOp = "playVideo"
    /\ currentVideo \in PartIds
    /\ partName(currentVideo) = "Pipe"
    /\ "pipe" \notin videoSequences
    /\ \E id \in PartIds : partName(id) = "pipe"

\* C28: when the fetch of the model fails, by a network error or a response
\* that is not OK, no part is registered, the frame loop is not started, the
\* video discovery is not started and the status shows an error; the same
\* holds when the loader reports an error.
C28_FetchFailureIsFatal ==
    /\ fetchResponse \in {"notOk", "networkError"} => loadPc = "failed"
    /\ loadPc = "failed"
          => /\ ~partsRegistered
             /\ ~animating
             /\ scanPc = "idle"
             /\ videoSequences = {}
             /\ status = "error"

\* the fetch was answered with a response that is not OK
C28_Witness ==
    /\ fetchResponse = "notOk"
    /\ loadPc = "failed"
    /\ lastOp = "playVideo"

\* C29: settings are reloaded as they were: when the page is opened again,
\* loadSettings gives material colour, roughness, light intensity, shadow-map
\* resolution, up-axis, apply scope and camera projection the values they had
\* after the last change, an apply scope of 'session' included.
C29_SettingsReloaded ==
    [][lastOp' = "reload" => settings' = settings]_vars

\* C30: a single-finger touchstart less than 300 ms after the one before
\* resets the camera, unless the one before was itself the second tap of a
\* double tap; one that comes 300 ms or more after the one before does not;
\* n rapid taps make floor(n / 2) resets.
C30_DoubleTap ==
    [][(/\ lastOp' = "touchstart"
        /\ tapCount' = tapCount + 1
        /\ touchCount' = 1
        /\ loadPc = "loaded")
       => /\ (now' - lastTapAt < DoubleTapWindow /\ runLength % 2 = 1)
                => cameraFit' = TRUE /\ runResets' = runResets + 1
          /\ (now' - lastTapAt < DoubleTapWindow /\ runLength % 2 = 0)
                => UNCHANGED <<cameraFit, runResets>>
          /\ now' - lastTapAt >= DoubleTapWindow
                => UNCHANGED cameraFit /\ runResets' = 0
          /\ runResets' = runLength' \div 2]_vars

\* the fourth of four rapid taps has reset the camera a second time
C30_Witness ==
    /\ lastOp = "touchstart"
    /\ runLength = 4
    /\ runResets = 2
    /\ cameraFit

\* C31: for every part of the output, boundingBox.min and boundingBox.max
\* are the componentwise minimum and maximum over all the vertices of the
\* part (every vertex lies inside the box and every face of the box is
\* touched by a vertex), size is max - min and center is the midpoint of min
\* and max (in halves: min + max); vertices added after a g line that repeats
\* the name of the part are counted.
C31_Inside(part, v) ==
    /\ part.boundingBox.min.x <= v.x /\ v.x <= part.boundingBox.max.x
    /\ part.boundingBox.min.y <= v.y /\ v.y <= part.boundingBox.max.y
    /\ part.boundingBox.min.z <= v.z /\ v.z <= part.boundingBox.max.z

C31_Tight(part) ==
    LET vs == {part.vertices[i] : i \in 1..Len(part.vertices)}
    IN /\ \E v \in vs : v.x = part.boundingBox.min.x
       /\ \E v \in vs : v.y = part.boundingBox.min.y
       /\ \E v \in vs : v.z = part.boundingBox.min.z
       /\ \E v \in vs : v.x = part.boundingBox.max.x
       /\ \E v \in vs : v.y = part.boundingBox.max.y
       /\ \E v \in vs : v.z = part.boundingBox.max.z

C31_Derived(part) ==
    /\ part.size = [isNull |-> FALSE,
                    x |-> part.boundingBox.max.x - part.boundingBox.min.x,
                    y |-> part.boundingBox.max.y - part.boundingBox.min.y,
                    z |-> part.boundingBox.max.z - part.boundingBox.min.z]
    /\ part.center = [isNull |-> FALSE,
                      x |-> part.boundingBox.min.x + part.boundingBox.max.x,
                      y |-> part.boundingBox.min.y + part.boundingBox.max.y,
                      z |-> part.boundingBox.min.z + part.boundingBox.max.z]

C31_BoundingBoxOfAllVertices ==
    (pc = "done") =>
        \A i \in 1..Len(result) :
            /\ ~result[i].boundingBox.isNull
            /\ \A k \in 1..Len(result[i].vertices) : C31_Inside(result[i], result[i].vertices[k])
            /\ C31_Tight(result[i])
            /\ C31_Derived(result[i])

\* the file g Nut, v, g Nut, v, f: the part returned has a vertex read after
\* the second g line, below 0 or above 1 on some axis
C31_Witness ==
    /\ pc = "done"
    /\ Len(result) = 1
    /\ Len(objContent) = 5
    /\ objContent[1] = GLine(NameA)
    /\ objContent[3] = GLine(NameA)
    /\ objContent[4].command = "v"
    /\ Len(result[1].vertices) = 2
    /\ result[1].vertices[2].x \notin {0, 1}

\* C35: in the output the part numbers are pairwise distinct and the part at
\* position i carries P- followed by i padded with zeros to three digits,
\* also when parts opened before it were rejected.
C35_Padded(i) ==
    "P-" \o (IF i < 10 THEN "00" ELSE IF i < 100 THEN "0" ELSE "") \o ToString(i)

C35_Numbered(list) ==
    /\ \A i \in 1..Len(list) : list[i].partNumber = C35_Padded(i)
    /\ \A i, j \in 1..Len(list) : list[i].partNumber = list[j].partNumber => i = j

C35_OutputNumberedByPosition ==
    /\ C35_Numbered(parts)
    /\ (pc = "done") => C35_Numbered(result)

\* the first part of the file was rejected and the second one was kept
C35_Witness ==
    /\ pc = "done"
    /\ openedCount = 2
    /\ Len(result) = 1
    /\ objContent[1] = OLine(NameA)
    /\ result[1].name = NameB

\* C32: at load time no two meshes are registered under the same part
\* number: the part numbers passed to addPart are pairwise distinct, whether
\* they come from a parsed part found by name or from the generated
\* P-(registry size + 1).
C32_DistinctPartNumbers ==
    \A i, j \in 1..Len(addPartCalls) : addPartCalls[i] = addPartCalls[j] => i = j

\* C33: in every reachable state the parts that have a section plane are
\* none when sectionedPartId is null and exactly the sectioned part
\* otherwise, and no clipping plane or cross-section object belongs to a part
\* that is not the sectioned part.
C33_SectionedOnly(S) == S = (IF sectionedPartId = Null THEN {} ELSE {sectionedPartId})

C33_SectionOnlyOnSectionedPart ==
    /\ C33_SectionedOnly({id \in PartIds : hasSectionPlane(State, id)})
    /\ crossSections \subseteq {sectionedPartId}
    /\ \A mat \in DOMAIN clippingPlanes :
          \A i \in 1..Len(clippingPlanes[mat]) : clippingPlanes[mat][i] = sectionedPartId

\* C34: in every state reached by selectPart, deselectAllParts and clicks on
\* the canvas and the parts list, at most one part has isSelected, a part
\* has isSelected exactly when selectedPart is its id, isHighlighted equals
\* isSelected for every part, and highlightedParts is the set of the parts
\* with isHighlighted.
C34_SelectionConsistent ==
    /\ Cardinality({p \in PartIds : isSelected[p]}) <= 1
    /\ \A p \in PartIds : isSelected[p] <=> (selectedPart = p)
    /\ \A p \in PartIds : isHighlighted[p] = isSelected[p]
    /\ highlightedParts = {p \in PartIds : isHighlighted[p]}

\* P-001 was selected and sectioned, then P-002 was selected from the list
C34_Witness ==
    /\ sectionedPartId = "P-001"
    /\ selectedPart = "P-002"
    /\ isSelected["P-002"]
    /\ highlightedParts = {"P-002"}
    /\ lastOp \in {"selectPart", "partItemClick"}

\* C36: after removeSectionPlane(id) has returned, no clipping plane
\* created for id is attached to any material (the original material of the
\* part, the green highlight material, the section-highlight material),
\* whatever selection changes came between createSectionPlane(id) and the
\* call.
C36_PlanesOf(planes, id) == {i \in 1..Len(planes) : planes[i] = id}

C36_RemoveDetachesClippingPlanes ==
    [][\A id \in PartIds :
          (lastOp' = "removeSectionPlane" /\ Call_removeSectionPlane(id))
             => \A mat \in DOMAIN clippingPlanes' : C36_PlanesOf(clippingPlanes'[mat], id) = {}]_vars

\* C37: in every reachable state a part whose isHighlighted flag is true
\* has a highlight material on its mesh (the green highlight material, or
\* the section-highlight material while it is the sectioned part), and a
\* part whose flag is false has neither.
C37_HighlightMaterialOn(p) ==
    \/ material[p] = highlightMaterial
    \/ p = sectionedPartId /\ material[p] = highlight2Material

C37_HighlightFlagMatchesMaterial ==
    \A p \in PartIds :
        IF isHighlighted[p]
        THEN C37_HighlightMaterialOn(p)
        ELSE material[p] \notin {highlightMaterial, highlight2Material}

\* C38: whenever the play-video button is enabled, a part is selected and
\* the name of that part has a discovered video, under every interleaving of
\* selection changes, the deferred updateVideoControls timers and the end of
\* the video scan.
C38_PlayEnabledOnlyForSelectedVideo ==
    ~playButtonDisabled =>
        /\ selectedPart \in PartIds
        /\ partName(selectedPart) \in videoSequences

\* C39: in every reachable state visibleParts is the set of the registered
\* parts whose isHidden flag is false, and the visible-part count shown in
\* the UI is the number of parts getVisibleParts() returns.  The count shown
\* is visibleParts.size as updateUI wrote it last, so it is the current
\* number in every state only if every call that changes the number ends
\* with updateUI.
C39_getVisibleParts == {p \in PartIds : ~isHidden[p]}

\* the calls of Spec that end with updateUI()
C39_CallsUpdateUI == {"isolatePart", "showAllParts"}

C39_VisibleCountShown ==
    [][/\ visibleParts' = {p \in PartIds : ~isHidden'[p]}
       /\ Cardinality(visibleParts') # Cardinality(C39_getVisibleParts)
             => lastOp' \in C39_CallsUpdateUI]_vars

\* the set and the flags agree in every state
C39_VisiblePartsAreNotHidden == visibleParts = C39_getVisibleParts

====
